---- MODULE Spec2Model ----
(***************************************************************************)
(* A model of package buffers of go-ietools (src/buffers/buffers.go): the  *)
(* Buffer object, a byte slice with a sticky error and a dirty flag, and   *)
(* its operations.  Every method is a pure operator from the object before *)
(* the call to the object after it, the returned value and whether the     *)
(* call panicked; one action per method applies it to the state.           *)
(* Package pvrz (src/pvrz/pvrz.go), the texture container read through a   *)
(* Buffer, is modelled the same way on the variable pvr.                   *)
(*                                                                         *)
(* A Go slice is modelled by its visible content (a sequence of bytes).    *)
(* Capacity is left out: no method reslices beyond the capacity of b.buf,   *)
(* and append() fills what it adds with zeros.                             *)
(***************************************************************************)
EXTENDS Integers, Sequences, FiniteSets, TLC

VARIABLES buf, dirty, err, crashed, pre, last, steps, pvr

vars == <<buf, dirty, err, crashed, pre, last, steps, pvr>>

----------------------------------------------------------------------------
(* Bounds of the exploration *)

\* most method calls made on one Buffer
MaxSteps == 2
\* longest buffer content of the structural edits
MaxLen == 4
\* largest size argument of InsertBytes / DeleteBytes
MaxSize == 3

----------------------------------------------------------------------------
(* Error values *)

NoError == "nil"
ErrOffsetOutOfRange == "Offset out of range"
ErrIllegalArguments == "Illegal arguments specified"

----------------------------------------------------------------------------
(* Slices *)

Min(a, b) == IF a < b THEN a ELSE b

Max(a, b) == IF a < b THEN b ELSE a

\* make([]byte, n)
Zeros(n) == [i \in 1..n |-> 0]

\* s[lo:hi] with Go's 0-based half-open bounds
Slice(s, lo, hi) == SubSeq(s, lo + 1, hi)

\* copy(s[at:], src) where the destination has room for n elements: the
\* first Min(n, len(src)) elements of src overwrite s from index at on
\* (memmove semantics: src is read as it was before the call).
GoCopy(s, at, n, src) ==
  LET k == Min(n, Len(src))
  IN  [i \in 1..Len(s) |-> IF i > at /\ i <= at + k THEN src[i - at] ELSE s[i]]

\* all byte sequences over alphabet A of length at most n
SeqsUpTo(A, n) == UNION {[1..k -> A] : k \in 0..n}

----------------------------------------------------------------------------
(* Results of a method call *)

NoRet == <<>>

\* the call returned r and left the object as b
Return(b, r) == [buf |-> b.buf, dirty |-> b.dirty, err |-> b.err, ret |-> r, panic |-> FALSE]

\* the call set the error state to e and returned r
Fail(b, e, r) == [buf |-> b.buf, dirty |-> b.dirty, err |-> e, ret |-> r, panic |-> FALSE]

\* the call panicked (a slice bound or index out of range): nothing stored
Panic(b) == [buf |-> b.buf, dirty |-> b.dirty, err |-> b.err, ret |-> NoRet, panic |-> TRUE]

\* the object part of a result
ObjOf(r) == [buf |-> r.buf, dirty |-> r.dirty, err |-> r.err]

----------------------------------------------------------------------------
(* Text.  A Go string is its bytes, by convention UTF-8.  Of the character  *)
(* maps only Windows-1252 is modelled ("Windows1252"); "nil" is no map.     *)
(* Of its bytes 0x80..0x9f only 0x80 (the euro sign) is tabulated.          *)

Windows1252 == "Windows1252"
NilCharmap == "nil"

ErrRepertoire == "encoding: rune not supported by encoding."

\* utf8.RuneError for bytes that are no UTF-8
InvalidRune == -1

\* the UTF-8 bytes of a rune below 2^16
EncodeRune(r) ==
  IF r < 128 THEN <<r>>
  ELSE IF r < 2048 THEN <<192 + (r \div 64), 128 + (r % 64)>>
  ELSE <<224 + (r \div 4096), 128 + ((r \div 64) % 64), 128 + (r % 64)>>

RECURSIVE DecodeRunes(_)
\* the runes of a string of UTF-8 bytes
DecodeRunes(s) ==
  IF s = <<>> THEN <<>>
  ELSE IF s[1] < 128 THEN <<s[1]>> \o DecodeRunes(Tail(s))
  ELSE IF s[1] \in 194..223 /\ Len(s) >= 2 /\ s[2] \in 128..191
       THEN <<(s[1] - 192) * 64 + (s[2] - 128)>> \o DecodeRunes(SubSeq(s, 3, Len(s)))
  ELSE IF s[1] \in 224..239 /\ Len(s) >= 3 /\ s[2] \in 128..191 /\ s[3] \in 128..191
       THEN <<(s[1] - 224) * 4096 + (s[2] - 128) * 64 + (s[3] - 128)>>
              \o DecodeRunes(SubSeq(s, 4, Len(s)))
  ELSE <<InvalidRune>> \o DecodeRunes(Tail(s))

\* the rune of a Windows-1252 byte
CharmapDecode(byte) == IF byte = 128 THEN 8364 ELSE byte

\* whether Windows-1252 has a byte for the rune, and that byte
CharmapHas(r) == r \in 0..127 \/ r \in 160..255 \/ r = 8364

CharmapEncode(r) == IF r = 8364 THEN 128 ELSE r

RECURSIVE Flatten(_)
Flatten(ss) == IF ss = <<>> THEN <<>> ELSE Head(ss) \o Flatten(Tail(ss))

\* AnsiToUtf8 and Utf8ToAnsi return the converted text and an error
AnsiToUtf8(buffer, cm) ==
  IF Len(buffer) = 0 THEN [out |-> <<>>, err |-> NoError]
  ELSE [out |-> Flatten([i \in 1..Len(buffer) |-> EncodeRune(CharmapDecode(buffer[i]))]),
        err |-> NoError]

Utf8ToAnsi(text, cm) ==
  LET runes == DecodeRunes(text)
  IN  IF \E i \in 1..Len(runes) : ~CharmapHas(runes[i])
      THEN [out |-> <<>>, err |-> ErrRepertoire]
      ELSE [out |-> [i \in 1..Len(runes) |-> CharmapEncode(runes[i])], err |-> NoError]

----------------------------------------------------------------------------
(* Text and byte ranges *)

\* the index of the first zero byte of s, or Len(s) + 1
RECURSIVE FirstZero(_, _)
FirstZero(s, i) == IF i > Len(s) \/ s[i] = 0 THEN i ELSE FirstZero(s, i + 1)

\* GetStringEx that does not look for the terminator
GetStringExWholeField(b, offset, size, null, cmap) ==
  IF b.err # NoError THEN Return(b, <<>>)
  ELSE IF size <= 0 THEN Return(b, <<>>)
  ELSE IF offset < 0 \/ offset + size > Len(b.buf) THEN Fail(b, ErrOffsetOutOfRange, <<>>)
  ELSE
    LET text == Slice(b.buf, offset, offset + size)
    IN  IF cmap # NilCharmap
        THEN LET conv == AnsiToUtf8(text, cmap)
             IN  [buf |-> b.buf, dirty |-> b.dirty, err |-> conv.err, ret |-> conv.out,
                  panic |-> FALSE]
        ELSE Return(b, text)

GetStringEx(b, offset, size, null, cmap) ==
  IF b.err # NoError THEN Return(b, <<>>)
  ELSE IF size <= 0 THEN Return(b, <<>>)
  ELSE IF offset < 0 \/ offset + size > Len(b.buf) THEN Fail(b, ErrOffsetOutOfRange, <<>>)
  ELSE
    LET field == Slice(b.buf, offset, offset + size)
        text == IF null THEN SubSeq(field, 1, FirstZero(field, 1) - 1) ELSE field
    IN  IF cmap # NilCharmap
        THEN LET conv == AnsiToUtf8(text, cmap)
             IN  [buf |-> b.buf, dirty |-> b.dirty, err |-> conv.err, ret |-> conv.out,
                  panic |-> FALSE]
        ELSE Return(b, text)

GetString(b, offset, size, null) == GetStringEx(b, offset, size, null, Windows1252)

GetBuffer(b, offset, size) ==
  IF b.err # NoError THEN Return(b, <<>>)
  ELSE IF offset < 0 \/ offset + size > Len(b.buf) THEN Fail(b, ErrOffsetOutOfRange, <<>>)
  \* make([]byte, size) panics on a negative size
  ELSE IF size < 0 THEN Panic(b)
  ELSE Return(b, Slice(b.buf, offset, offset + size))

\* the index up to which value and the bytes of s from offset on are compared:
\* the first difference, Len(value) when there is none, or -1 when the
\* comparison runs past the end of s (an index out of range)
RECURSIVE CompareFrom(_, _, _, _)
CompareFrom(s, offset, value, idx) ==
  IF idx >= Len(value) THEN [equal |-> TRUE, panic |-> FALSE]
  ELSE IF offset + idx >= Len(s) THEN [equal |-> FALSE, panic |-> TRUE]
  ELSE IF value[idx + 1] # s[offset + idx + 1] THEN [equal |-> FALSE, panic |-> FALSE]
  ELSE CompareFrom(s, offset, value, idx + 1)

\* PutStringEx that stores the raw bytes of a value the character map cannot
\* encode
PutStringExRawOnFailure(b, offset, size, value, cmap) ==
  IF b.err # NoError THEN Return(b, NoRet)
  ELSE IF size <= 0 THEN Return(b, NoRet)
  ELSE IF offset < 0 \/ offset + size > Len(b.buf) THEN Fail(b, ErrOffsetOutOfRange, NoRet)
  ELSE
    LET conv == IF cmap # NilCharmap /\ Utf8ToAnsi(value, cmap).err = NoError
                THEN Utf8ToAnsi(value, cmap)
                ELSE [out |-> value, err |-> NoError]
    IN  IF conv.err # NoError THEN Fail(b, conv.err, NoRet)
        ELSE
          LET cmp == CompareFrom(b.buf, offset, conv.out, 0)
              copied == GoCopy(b.buf, offset, size, conv.out)
              padded == [i \in 1..Len(copied) |->
                           IF i > offset + Len(conv.out) /\ i <= offset + size
                           THEN 0 ELSE copied[i]]
          IN  IF cmp.panic THEN Panic(b)
              ELSE IF ~cmp.equal
                   THEN Return([b EXCEPT !.buf = padded, !.dirty = TRUE], NoRet)
                   ELSE Return(b, NoRet)

PutStringEx(b, offset, size, value, cmap) ==
  IF b.err # NoError THEN Return(b, NoRet)
  ELSE IF size <= 0 THEN Return(b, NoRet)
  ELSE IF offset < 0 \/ offset + size > Len(b.buf) THEN Fail(b, ErrOffsetOutOfRange, NoRet)
  ELSE
    LET conv == IF cmap # NilCharmap THEN Utf8ToAnsi(value, cmap)
                ELSE [out |-> value, err |-> NoError]
    IN  IF conv.err # NoError THEN Fail(b, conv.err, NoRet)
        ELSE
          LET cmp == CompareFrom(b.buf, offset, conv.out, 0)
              copied == GoCopy(b.buf, offset, size, conv.out)
              padded == [i \in 1..Len(copied) |->
                           IF i > offset + Len(conv.out) /\ i <= offset + size
                           THEN 0 ELSE copied[i]]
          IN  IF cmp.panic THEN Panic(b)
              ELSE IF ~cmp.equal
                   THEN Return([b EXCEPT !.buf = padded, !.dirty = TRUE], NoRet)
                   ELSE Return(b, NoRet)

PutString(b, offset, size, value) == PutStringEx(b, offset, size, value, Windows1252)

PutBuffer(b, offset, data) ==
  IF b.err # NoError THEN Return(b, NoRet)
  ELSE IF offset < 0 \/ offset + Len(data) > Len(b.buf)
       THEN Fail(b, ErrOffsetOutOfRange, NoRet)
  ELSE IF ~CompareFrom(b.buf, offset, data, 0).equal
       THEN Return([b EXCEPT !.buf = GoCopy(b.buf, offset, Len(data), data), !.dirty = TRUE],
                   NoRet)
       ELSE Return(b, NoRet)

\* ReplaceBuffer(nil) is ReplaceBuffer of the empty slice
ReplaceBuffer(b, data) == Return([buf |-> data, dirty |-> TRUE, err |-> NoError], NoRet)

----------------------------------------------------------------------------
(* Structural edits *)

\* InsertBytes that grows the slice but does not shift the trailing content
InsertBytesNoShift(b, offset, size) ==
  IF b.err # NoError THEN Return(b, NoRet)
  ELSE IF offset < 0 \/ offset > Len(b.buf) THEN Fail(b, ErrOffsetOutOfRange, NoRet)
  ELSE IF size > 0 THEN Return([b EXCEPT !.buf = b.buf \o Zeros(size), !.dirty = TRUE], NoRet)
  ELSE Return(b, NoRet)

InsertBytes(b, offset, size) ==
  IF b.err # NoError THEN Return(b, NoRet)
  ELSE IF offset < 0 \/ offset > Len(b.buf) THEN Fail(b, ErrOffsetOutOfRange, NoRet)
  ELSE IF size > 0 THEN
    LET l == Len(b.buf)
        grown == b.buf \o Zeros(size)
        moved == GoCopy(grown, offset + size, l - offset, Slice(grown, offset, l))
    IN  Return([b EXCEPT !.buf = moved, !.dirty = TRUE], NoRet)
  ELSE Return(b, NoRet)

DeleteBytes(b, offset, size) ==
  IF b.err # NoError THEN Return(b, NoRet)
  ELSE IF offset < 0 \/ offset > Len(b.buf) THEN Fail(b, ErrOffsetOutOfRange, NoRet)
  ELSE IF size > 0 THEN
    IF offset = 0 THEN
      \* b.buf[size:] panics when size > len(b.buf)
      IF size > Len(b.buf) THEN Panic(b)
      ELSE Return([b EXCEPT !.buf = Slice(b.buf, size, Len(b.buf)), !.dirty = TRUE], NoRet)
    \* b.buf[:len(b.buf)-size] panics on a negative bound
    ELSE IF Len(b.buf) - size < 0 THEN Panic(b)
    ELSE
      LET l == Len(b.buf)
          buf2 == Slice(b.buf, 0, l - size)
          \* copy(buf2[:offset], b.buf[:offset]) copies a region onto itself
          shifted == IF offset + size < Len(buf2)
                     THEN GoCopy(buf2, offset, Len(buf2) - offset, Slice(b.buf, offset + size, l))
                     ELSE buf2
      IN  Return([b EXCEPT !.buf = shifted, !.dirty = TRUE], NoRet)
  ELSE Return(b, NoRet)

----------------------------------------------------------------------------
(* Integer values.  An 8- or 16-bit value and a signed 32-bit value is an   *)
(* integer; an unsigned 32-bit value is kept as its two 16-bit halves, so   *)
(* that no intermediate value leaves the range of a 32-bit signed integer.  *)

\* the uint32 hi * 2^16 + lo
Word(lo, hi) == [lo |-> lo, hi |-> hi]

\* Go's conversions between signed and unsigned types of one width
ToUint8(v) == v % 256

ToInt8(u) == IF u >= 128 THEN u - 256 ELSE u

ToUint16(v) == v % 65536

ToInt16(u) == IF u >= 32768 THEN u - 65536 ELSE u

ToUint32(v) == Word(v % 65536, (v \div 65536) % 65536)

ToInt32(w) == IF w.hi >= 32768 THEN (w.hi - 65536) * 65536 + w.lo ELSE w.hi * 65536 + w.lo

\* binary.LittleEndian.Uint16(s[offset:]) and PutUint16(s[offset:], v)
LittleEndianUint16(s, offset) == s[offset + 1] + 256 * s[offset + 2]

LittleEndianPutUint16(s, offset, v) ==
  [s EXCEPT ![offset + 1] = v % 256, ![offset + 2] = v \div 256]

\* binary.LittleEndian.Uint32(s[offset:]) and PutUint32(s[offset:], v)
LittleEndianUint32(s, offset) ==
  Word(s[offset + 1] + 256 * s[offset + 2], s[offset + 3] + 256 * s[offset + 4])

LittleEndianPutUint32(s, offset, w) ==
  [s EXCEPT ![offset + 1] = w.lo % 256, ![offset + 2] = w.lo \div 256,
            ![offset + 3] = w.hi % 256, ![offset + 4] = w.hi \div 256]

\* the result r with its returned value converted by Conv
Converted(r, Conv(_)) == [r EXCEPT !.ret = Conv(r.ret)]

Zero32 == Word(0, 0)

----------------------------------------------------------------------------
(* Typed reads *)

GetUint8(b, offset) ==
  IF b.err # NoError THEN Return(b, 0)
  ELSE IF offset < 0 \/ offset >= Len(b.buf) THEN Fail(b, ErrOffsetOutOfRange, 0)
  ELSE Return(b, b.buf[offset + 1])

GetInt8(b, offset) == Converted(GetUint8(b, offset), ToInt8)

\* GetUint16 whose bounds check rejects the last valid offset
GetUint16OffByOne(b, offset) ==
  IF b.err # NoError THEN Return(b, 0)
  ELSE IF offset < 0 \/ offset + 2 >= Len(b.buf) THEN Fail(b, ErrOffsetOutOfRange, 0)
  ELSE Return(b, LittleEndianUint16(b.buf, offset))

GetUint16(b, offset) ==
  IF b.err # NoError THEN Return(b, 0)
  ELSE IF offset < 0 \/ offset + 2 > Len(b.buf) THEN Fail(b, ErrOffsetOutOfRange, 0)
  ELSE Return(b, LittleEndianUint16(b.buf, offset))

GetInt16(b, offset) == Converted(GetUint16(b, offset), ToInt16)

GetUint32(b, offset) ==
  IF b.err # NoError THEN Return(b, Zero32)
  ELSE IF offset < 0 \/ offset + 4 > Len(b.buf) THEN Fail(b, ErrOffsetOutOfRange, Zero32)
  ELSE Return(b, LittleEndianUint32(b.buf, offset))

GetInt32(b, offset) == Converted(GetUint32(b, offset), ToInt32)

\* uint(x) of a narrower unsigned value, as a Word
WordOf(u) == Word(u, 0)

GetUint(b, offset, bitsize) ==
  IF bitsize <= 8 THEN Converted(GetUint8(b, offset), WordOf)
  ELSE IF bitsize <= 16 THEN Converted(GetUint16(b, offset), WordOf)
  ELSE GetUint32(b, offset)

GetInt(b, offset, bitsize) ==
  IF bitsize <= 8 THEN GetInt8(b, offset)
  ELSE IF bitsize <= 16 THEN GetInt16(b, offset)
  ELSE GetInt32(b, offset)

----------------------------------------------------------------------------
(* Typed writes: each returns the value it replaces *)

\* PutUint8 that does not look at the error state
PutUint8Unchecked(b, offset, value) ==
  IF offset < 0 \/ offset >= Len(b.buf) THEN Fail(b, ErrOffsetOutOfRange, 0)
  ELSE
    LET retVal == b.buf[offset + 1]
    IN  IF retVal # value
        THEN Return([b EXCEPT !.buf = [b.buf EXCEPT ![offset + 1] = value], !.dirty = TRUE], retVal)
        ELSE Return(b, retVal)

PutUint8(b, offset, value) ==
  IF b.err # NoError THEN Return(b, 0)
  ELSE IF offset < 0 \/ offset >= Len(b.buf) THEN Fail(b, ErrOffsetOutOfRange, 0)
  ELSE
    LET retVal == b.buf[offset + 1]
    IN  IF retVal # value
        THEN Return([b EXCEPT !.buf = [b.buf EXCEPT ![offset + 1] = value], !.dirty = TRUE], retVal)
        ELSE Return(b, retVal)

PutInt8(b, offset, value) == Converted(PutUint8(b, offset, ToUint8(value)), ToInt8)

\* PutUint16 that stores the most significant byte first
PutUint16BigEndian(b, offset, value) ==
  IF b.err # NoError THEN Return(b, 0)
  ELSE IF offset < 0 \/ offset + 2 > Len(b.buf) THEN Fail(b, ErrOffsetOutOfRange, 0)
  ELSE
    LET retVal == LittleEndianUint16(b.buf, offset)
    IN  IF retVal # value
        THEN Return([b EXCEPT !.buf = [b.buf EXCEPT ![offset + 1] = value \div 256,
                                                    ![offset + 2] = value % 256],
                              !.dirty = TRUE], retVal)
        ELSE Return(b, retVal)

PutUint16(b, offset, value) ==
  IF b.err # NoError THEN Return(b, 0)
  ELSE IF offset < 0 \/ offset + 2 > Len(b.buf) THEN Fail(b, ErrOffsetOutOfRange, 0)
  ELSE
    LET retVal == LittleEndianUint16(b.buf, offset)
    IN  IF retVal # value
        THEN Return([b EXCEPT !.buf = LittleEndianPutUint16(b.buf, offset, value),
                              !.dirty = TRUE], retVal)
        ELSE Return(b, retVal)

PutInt16(b, offset, value) == Converted(PutUint16(b, offset, ToUint16(value)), ToInt16)

PutUint32(b, offset, value) ==
  IF b.err # NoError THEN Return(b, Zero32)
  ELSE IF offset < 0 \/ offset + 4 > Len(b.buf) THEN Fail(b, ErrOffsetOutOfRange, Zero32)
  ELSE
    LET retVal == LittleEndianUint32(b.buf, offset)
    IN  IF retVal # value
        THEN Return([b EXCEPT !.buf = LittleEndianPutUint32(b.buf, offset, value),
                              !.dirty = TRUE], retVal)
        ELSE Return(b, retVal)

PutInt32(b, offset, value) == Converted(PutUint32(b, offset, ToUint32(value)), ToInt32)

----------------------------------------------------------------------------
(* The stream codec (compress/zlib), reduced to one byte per element.  A    *)
(* stream is a header byte followed by blocks: a literal byte, a run of     *)
(* RunLen equal bytes, an empty block (what a flush writes) or the final    *)
(* block, which stands for deflate's final block and the checksum.  Bytes   *)
(* after the final block are not read.                                      *)

ZSYNC == 0
ZLIT == 1
ZRUN == 2
ZEND == 3
ZHDR == 3
RunLen == 5

ErrHeader == "zlib: invalid header"
ErrUnexpectedEOF == "unexpected EOF"
ErrCorruptInput == "flate: corrupt input"
EOF == "EOF"

\* whether compression level `level` searches for repeated bytes
\* (HuffmanOnly = -2 and NoCompression = 0 do not)
Matching(level) == level \notin {-2, 0}

\* a writer of the given level that started at data[i] comes to data[k]; st
\* counts the equal bytes before it since the last block began.  The writer
\* takes RunLen equal bytes at a time for a run block as long as that many
\* follow, and single bytes for literal blocks.
DeflateAt(data, i, k, level, st) ==
  LET phase == IF k > i /\ data[k - 1] = data[k] THEN (st + 1) % RunLen ELSE 0
      first == k - phase
  IN  [st |-> phase,
       out |-> IF ~(/\ Matching(level)
                    /\ first + RunLen - 1 <= Len(data)
                    /\ \A m \in first..(first + RunLen - 1) : data[m] = data[k])
               THEN <<ZLIT, data[k]>>
               ELSE IF first = k THEN <<ZRUN, data[k]>> ELSE <<>>]

RECURSIVE DeflateRange(_, _, _, _, _, _)
\* what that writer emits for data[lo..hi], by halves
DeflateRange(data, i, lo, hi, level, st) ==
  IF st < 0 \/ lo > hi THEN [st |-> st, out |-> <<>>]
  ELSE IF lo = hi THEN DeflateAt(data, i, lo, level, st)
  ELSE
    LET mid == (lo + hi) \div 2
        left == DeflateRange(data, i, lo, mid, level, st)
        right == DeflateRange(data, i, mid + 1, hi, level, left.st)
    IN  [st |-> right.st, out |-> left.out \o right.out]

\* the blocks a writer of the given level emits for data[i..]
Deflate(data, i, level) == DeflateRange(data, i, i, Len(data), level, 0).out

\* what the reader expects next: a block, the byte of a literal or of a run
InBlock == "block"
InLiteral == "literal"
InRun == "run"

\* the reader in state st reads one byte: its next state, which is the error
\* it ends with once the stream is over (EOF after the final block), and
\* the bytes produced
InflateByte(byte, st) ==
  IF st = InBlock
  THEN [st |-> IF byte = ZEND THEN EOF
               ELSE IF byte = ZSYNC THEN InBlock
               ELSE IF byte = ZLIT THEN InLiteral
               ELSE IF byte = ZRUN THEN InRun
               ELSE ErrCorruptInput,
        out |-> <<>>]
  ELSE IF st = InLiteral THEN [st |-> InBlock, out |-> <<byte>>]
  ELSE IF st = InRun THEN [st |-> InBlock, out |-> [k \in 1..RunLen |-> byte]]
  ELSE [st |-> st, out |-> <<>>]

RECURSIVE InflateRange(_, _, _, _)
\* the reader in state st reads s[lo..hi], by halves; once the stream is
\* over nothing more is read
InflateRange(s, lo, hi, st) ==
  IF st \notin {InBlock, InLiteral, InRun} \/ lo > hi THEN [st |-> st, out |-> <<>>]
  ELSE IF lo = hi THEN InflateByte(s[lo], st)
  ELSE
    LET mid == (lo + hi) \div 2
        left == InflateRange(s, lo, mid, st)
        right == InflateRange(s, mid + 1, hi, left.st)
    IN  [st |-> right.st, out |-> left.out \o right.out]

\* reading the blocks of s from index i on: the bytes produced and the error
\* the reader ends with (EOF after the final block)
Inflate(s, i, out) ==
  LET read == InflateRange(s, i, Len(s), InBlock)
  IN  [out |-> out \o read.out,
       err |-> IF read.st \in {InBlock, InLiteral, InRun} THEN ErrUnexpectedEOF
               ELSE read.st]

----------------------------------------------------------------------------
(* In-place compression and decompression *)

\* buffer is the caller's target slice; nil and the empty slice are <<>>
DecompressInto(b, offset, size, buffer) ==
  IF b.err # NoError THEN Return(b, buffer)
  ELSE IF size <= 0 \/ offset < 0 \/ offset + size > Len(b.buf)
       THEN Fail(b, ErrOffsetOutOfRange, buffer)
  ELSE
    LET region == Slice(b.buf, offset, offset + size)
    IN  \* zlib.NewReader reads the header
        IF region[1] # ZHDR THEN Fail(b, ErrHeader, buffer)
        ELSE
          \* the loop drains the stream into the target, doubling it when
          \* full; the target is then cut to the bytes read
          LET read == Inflate(region, 2, <<>>)
          IN  IF read.err # EOF THEN Fail(b, read.err, read.out)
              ELSE Return(b, read.out)

\* the steps of DecompressReplace and CompressReplace after the codec ran:
\* resize the region from size to len(buffer) bytes, copy buffer into it
ReplaceRegion(b, offset, size, buffer) ==
  LET m == Len(buffer)
      resized == IF m > size THEN InsertBytes(b, offset + size, m - size)
                 ELSE IF m < size THEN DeleteBytes(b, offset + m, size - m)
                 ELSE Return(b, NoRet)
  IN  IF resized.panic THEN Panic(b)
      ELSE IF resized.err # NoError THEN Fail(b, resized.err, 0)
      ELSE Return([buf |-> GoCopy(resized.buf, offset, m, buffer), dirty |-> TRUE,
                   err |-> resized.err], m)

\* DecompressReplace that keeps what was inflated before the stream failed
DecompressReplaceKeepsPartial(b, offset, size) ==
  IF b.err # NoError THEN Return(b, 0)
  ELSE
    LET sz == IF size < 0 THEN 0 ELSE size
        into == DecompressInto(b, offset, sz, <<>>)
    IN  IF into.err = ErrOffsetOutOfRange THEN Fail(b, into.err, 0)
        ELSE IF into.err # NoError
             THEN Fail(ObjOf(ReplaceRegion(b, offset, sz, into.ret)), into.err, 0)
        ELSE ReplaceRegion(b, offset, sz, into.ret)

DecompressReplace(b, offset, size) ==
  IF b.err # NoError THEN Return(b, 0)
  ELSE
    LET sz == IF size < 0 THEN 0 ELSE size
        into == DecompressInto(b, offset, sz, <<>>)
    IN  IF into.err # NoError THEN Fail(b, into.err, 0)
        ELSE ReplaceRegion(b, offset, sz, into.ret)

CompressInto(b, offset, size, level, buffer) ==
  IF b.err # NoError THEN Return(b, buffer)
  ELSE IF size < 0 \/ offset < 0 \/ offset + size > Len(b.buf)
       THEN Fail(b, ErrOffsetOutOfRange, buffer)
  ELSE
    LET lvl == IF level < -2 THEN -2 ELSE IF level > 9 THEN 9 ELSE level
        data == Slice(b.buf, offset, offset + size)
        \* the writer appends to the target: header and blocks on Write,
        \* an empty block on Flush; Close runs after the result is taken
        written == buffer \o <<ZHDR>> \o Deflate(data, 1, lvl) \o <<ZSYNC>>
        bytesWritten == size
    IN  IF bytesWritten < Len(written)
        THEN Return(b, Slice(written, 0, bytesWritten))
        ELSE Return(b, written)

CompressReplace(b, offset, size, level) ==
  IF b.err # NoError THEN Return(b, 0)
  ELSE
    LET sz == IF size < 0 THEN 0 ELSE size
        into == CompressInto(b, offset, sz, level, <<>>)
    IN  IF into.err # NoError THEN Fail(b, into.err, 0)
        ELSE ReplaceRegion(b, offset, sz, into.ret)

----------------------------------------------------------------------------
(* Offset arrays.  v holds the arguments sevenValues[0..6] as v[1..7]. *)

\* GetOffsetArray that starts every list at its first substructure
GetOffsetArrayFromFirst(b, v) ==
  IF b.err # NoError THEN Return(b, <<>>)
  ELSE IF Len(v) < 7 THEN Fail(b, ErrIllegalArguments, <<>>)
  ELSE IF v[1] <= 0 \/ v[3] <= 0 THEN Fail(b, ErrIllegalArguments, <<>>)
  ELSE IF v[2] # 2 /\ v[2] # 4 THEN Fail(b, ErrIllegalArguments, <<>>)
  ELSE IF v[4] < 1 \/ v[4] > 4 \/ v[4] = 3 THEN Fail(b, ErrIllegalArguments, <<>>)
  ELSE IF v[6] < 0 \/ v[6] > 4 \/ v[4] = 3 THEN Fail(b, ErrIllegalArguments, <<>>)
  ELSE IF v[7] <= 0 THEN Fail(b, ErrIllegalArguments, <<>>)
  ELSE
    LET ofsR == IF v[2] = 2 THEN GetInt16(b, v[1]) ELSE GetInt32(b, v[1])
        b1 == ObjOf(ofsR)
        cntR == IF v[4] = 1 THEN GetInt8(b1, v[3])
                ELSE IF v[4] = 2 THEN GetInt16(b1, v[3])
                ELSE GetInt32(b1, v[3])
        b2 == ObjOf(cntR)
        idxR == IF v[5] > 0 /\ v[6] = 1 THEN GetInt8(b2, v[5])
                ELSE IF v[5] > 0 /\ v[6] = 2 THEN GetInt16(b2, v[5])
                ELSE IF v[5] > 0 /\ v[6] = 4 THEN GetInt32(b2, v[5])
                ELSE Return(b2, 0)
        ofs == ofsR.ret
        cnt == cntR.ret
        idx == idxR.ret
    IN  IF ofs > 0 /\ cnt > 0 /\ cnt >= idx
        THEN Return(ObjOf(idxR), [k \in 1..(cnt - idx) |-> ofs + (k - 1) * v[7]])
        ELSE Return(ObjOf(idxR), <<>>)

GetOffsetArray(b, v) ==
  IF b.err # NoError THEN Return(b, <<>>)
  ELSE IF Len(v) < 7 THEN Fail(b, ErrIllegalArguments, <<>>)
  ELSE IF v[1] <= 0 \/ v[3] <= 0 THEN Fail(b, ErrIllegalArguments, <<>>)
  ELSE IF v[2] # 2 /\ v[2] # 4 THEN Fail(b, ErrIllegalArguments, <<>>)
  ELSE IF v[4] < 1 \/ v[4] > 4 \/ v[4] = 3 THEN Fail(b, ErrIllegalArguments, <<>>)
  ELSE IF v[6] < 0 \/ v[6] > 4 \/ v[4] = 3 THEN Fail(b, ErrIllegalArguments, <<>>)
  ELSE IF v[7] <= 0 THEN Fail(b, ErrIllegalArguments, <<>>)
  ELSE
    LET ofsR == IF v[2] = 2 THEN GetInt16(b, v[1]) ELSE GetInt32(b, v[1])
        b1 == ObjOf(ofsR)
        cntR == IF v[4] = 1 THEN GetInt8(b1, v[3])
                ELSE IF v[4] = 2 THEN GetInt16(b1, v[3])
                ELSE GetInt32(b1, v[3])
        b2 == ObjOf(cntR)
        idxR == IF v[5] > 0 /\ v[6] = 1 THEN GetInt8(b2, v[5])
                ELSE IF v[5] > 0 /\ v[6] = 2 THEN GetInt16(b2, v[5])
                ELSE IF v[5] > 0 /\ v[6] = 4 THEN GetInt32(b2, v[5])
                ELSE Return(b2, 0)
        ofs == ofsR.ret
        cnt == cntR.ret
        idx == idxR.ret
    IN  IF ofs > 0 /\ cnt > 0 /\ cnt >= idx
        THEN Return(ObjOf(idxR), [k \in 1..(cnt - idx) |-> ofs + (idx + k - 1) * v[7]])
        ELSE Return(ObjOf(idxR), <<>>)

GetOffsetArray2(b, offset2, v) ==
  IF b.err # NoError THEN Return(b, <<>>)
  ELSE IF Len(v) < 7 THEN Fail(b, ErrIllegalArguments, <<>>)
  ELSE IF offset2 <= 0 THEN Fail(b, ErrIllegalArguments, <<>>)
  ELSE
    LET idx == IF v[5] > 0 /\ v[6] > 0 THEN offset2 + v[5] ELSE 0
    IN  GetOffsetArray(b, <<v[1], v[2], offset2 + v[3], v[4], idx, v[6], v[7]>>)

----------------------------------------------------------------------------
(* Saving and the queries *)

ErrWrite == "write error"
ErrRead == "read error"

\* accepted tells whether the Writer takes the bytes; the returned value is
\* the sequence of writes it accepted
\* Save that leaves the dirty flag alone
SaveKeepsDirty(b, accepted) ==
  IF b.err # NoError THEN Return(b, NoRet)
  ELSE IF ~accepted THEN Fail(b, ErrWrite, NoRet)
  ELSE Return(b, <<b.buf>>)

Save(b, accepted) ==
  IF b.err # NoError THEN Return(b, NoRet)
  ELSE IF ~accepted THEN Fail(b, ErrWrite, NoRet)
  ELSE Return([b EXCEPT !.dirty = FALSE], <<b.buf>>)

Bytes(b) == IF b.err # NoError THEN Return(b, <<>>) ELSE Return(b, b.buf)

Error(b) == Return(b, b.err)

ClearError(b) == Return([b EXCEPT !.err = NoError], NoRet)

BufferLength(b) == Return(b, Len(b.buf))

IsModified(b) == Return(b, b.dirty)

ClearModified(b) == Return([b EXCEPT !.dirty = FALSE], NoRet)

----------------------------------------------------------------------------
(* The state machine *)

Self == [buf |-> buf, dirty |-> dirty, err |-> err]

\* the value of pvr while only a Buffer is in play
NoPvr == <<>>

\* one method call: the state before it, the call and its outcome are kept
Call(op, arg, r) ==
  /\ ~crashed
  /\ steps < MaxSteps
  /\ steps' = steps + 1
  /\ buf' = r.buf
  /\ dirty' = r.dirty
  /\ err' = r.err
  /\ crashed' = r.panic
  /\ pre' = Self
  /\ last' = [op |-> op, arg |-> arg, returned |-> r.ret]
  /\ UNCHANGED pvr

\* a fresh Buffer made by constructor op, holding content and error e
Fresh(op, content, e) ==
  /\ buf = content
  /\ dirty = FALSE
  /\ err = e
  /\ crashed = FALSE
  /\ steps = 0
  /\ pre = [buf |-> content, dirty |-> FALSE, err |-> e]
  /\ last = [op |-> op, arg |-> <<>>, returned |-> NoRet]
  /\ pvr = NoPvr

\* Wrap(content) for a non-nil slice
Wrap(content) == Fresh("Wrap", content, NoError)

\* Create() is Wrap(nil): 256 zero bytes
Create == Fresh("Create", Zeros(256), NoError)

\* Load(r): what ioutil.ReadAll read, and its error
Load(content, e) == Fresh("Load", content, e)

CallInsertBytes(offset, size) ==
  Call("InsertBytes", [offset |-> offset, size |-> size], InsertBytes(Self, offset, size))

CallDeleteBytes(offset, size) ==
  Call("DeleteBytes", [offset |-> offset, size |-> size], DeleteBytes(Self, offset, size))

CallGetUint8(offset) ==
  Call("GetUint8", [offset |-> offset], GetUint8(Self, offset))

CallGetInt8(offset) ==
  Call("GetInt8", [offset |-> offset], GetInt8(Self, offset))

CallGetUint16(offset) ==
  Call("GetUint16", [offset |-> offset], GetUint16(Self, offset))

CallGetInt16(offset) ==
  Call("GetInt16", [offset |-> offset], GetInt16(Self, offset))

CallGetUint32(offset) ==
  Call("GetUint32", [offset |-> offset], GetUint32(Self, offset))

CallGetInt32(offset) ==
  Call("GetInt32", [offset |-> offset], GetInt32(Self, offset))

CallPutUint8(offset, value) ==
  Call("PutUint8", [offset |-> offset, value |-> value], PutUint8(Self, offset, value))

CallPutInt8(offset, value) ==
  Call("PutInt8", [offset |-> offset, value |-> value], PutInt8(Self, offset, value))

CallPutUint16(offset, value) ==
  Call("PutUint16", [offset |-> offset, value |-> value], PutUint16(Self, offset, value))

CallPutInt16(offset, value) ==
  Call("PutInt16", [offset |-> offset, value |-> value], PutInt16(Self, offset, value))

CallPutUint32(offset, value) ==
  Call("PutUint32", [offset |-> offset, value |-> value], PutUint32(Self, offset, value))

CallPutInt32(offset, value) ==
  Call("PutInt32", [offset |-> offset, value |-> value], PutInt32(Self, offset, value))

CallGetUint(offset, bitsize) ==
  Call("GetUint", [offset |-> offset, bitsize |-> bitsize], GetUint(Self, offset, bitsize))

CallGetInt(offset, bitsize) ==
  Call("GetInt", [offset |-> offset, bitsize |-> bitsize], GetInt(Self, offset, bitsize))

CallDecompressInto(offset, size, buffer) ==
  Call("DecompressInto", [offset |-> offset, size |-> size, buffer |-> buffer],
       DecompressInto(Self, offset, size, buffer))

CallDecompressReplace(offset, size) ==
  Call("DecompressReplace", [offset |-> offset, size |-> size],
       DecompressReplace(Self, offset, size))

CallCompressInto(offset, size, level, buffer) ==
  Call("CompressInto", [offset |-> offset, size |-> size, level |-> level, buffer |-> buffer],
       CompressInto(Self, offset, size, level, buffer))

CallCompressReplace(offset, size, level) ==
  Call("CompressReplace", [offset |-> offset, size |-> size, level |-> level],
       CompressReplace(Self, offset, size, level))

CallGetStringEx(offset, size, null, cmap) ==
  Call("GetStringEx", [offset |-> offset, size |-> size, null |-> null, cmap |-> cmap],
       GetStringEx(Self, offset, size, null, cmap))

CallGetString(offset, size, null) ==
  Call("GetString", [offset |-> offset, size |-> size, null |-> null, cmap |-> Windows1252],
       GetString(Self, offset, size, null))

CallGetBuffer(offset, size) ==
  Call("GetBuffer", [offset |-> offset, size |-> size], GetBuffer(Self, offset, size))

CallPutStringEx(offset, size, value, cmap) ==
  Call("PutStringEx", [offset |-> offset, size |-> size, value |-> value, cmap |-> cmap],
       PutStringEx(Self, offset, size, value, cmap))

CallPutString(offset, size, value) ==
  Call("PutString", [offset |-> offset, size |-> size, value |-> value, cmap |-> Windows1252],
       PutString(Self, offset, size, value))

CallPutBuffer(offset, data) ==
  Call("PutBuffer", [offset |-> offset, data |-> data], PutBuffer(Self, offset, data))

CallReplaceBuffer(data) ==
  Call("ReplaceBuffer", [data |-> data], ReplaceBuffer(Self, data))

CallGetOffsetArray(v) ==
  Call("GetOffsetArray", [values |-> v], GetOffsetArray(Self, v))

CallGetOffsetArray2(offset2, v) ==
  Call("GetOffsetArray2", [offset2 |-> offset2, values |-> v], GetOffsetArray2(Self, offset2, v))

CallSave(accepted) == Call("Save", [accepted |-> accepted], Save(Self, accepted))

CallBytes == Call("Bytes", <<>>, Bytes(Self))

CallError == Call("Error", <<>>, Error(Self))

CallClearError == Call("ClearError", <<>>, ClearError(Self))

CallBufferLength == Call("BufferLength", <<>>, BufferLength(Self))

CallIsModified == Call("IsModified", <<>>, IsModified(Self))

CallClearModified == Call("ClearModified", <<>>, ClearModified(Self))

----------------------------------------------------------------------------
(* Structural edits on arbitrary content *)

EditBytes == {0, 1, 2}

EditOffsets == -1..(MaxLen + 1)

EditSizes == -1..MaxSize

InitEdit == \E content \in SeqsUpTo(EditBytes, MaxLen) : Wrap(content)

NextEdit ==
  \/ \E o \in EditOffsets, n \in EditSizes :
       Len(buf) + Max(n, 0) <= MaxLen /\ CallInsertBytes(o, n)
  \/ \E o \in EditOffsets, n \in EditSizes : CallDeleteBytes(o, n)
  \/ CallClearError

SpecEdit == InitEdit /\ [][NextEdit]_vars

----------------------------------------------------------------------------
(* Typed reads and writes on arbitrary content *)

\* longest buffer content of the typed accesses
MaxIntLen == 5

IntBytes == {0, 255}

IntOffsets == -1..MaxIntLen

U8Values == {0, 255}

I8Values == {-1, 0}

U16Values == {255, 65280}

I16Values == {-256, 255}

U32Values == {Word(65280, 0), Word(0, 65280)}

I32Values == {-16777216, 16711680}

BitSizes == {8, 16, 32}

InitInt == \E content \in SeqsUpTo(IntBytes, MaxIntLen) : Wrap(content)

NextInt ==
  \/ \E o \in IntOffsets : CallGetUint8(o)
  \/ \E o \in IntOffsets : CallGetInt8(o)
  \/ \E o \in IntOffsets : CallGetUint16(o)
  \/ \E o \in IntOffsets : CallGetInt16(o)
  \/ \E o \in IntOffsets : CallGetUint32(o)
  \/ \E o \in IntOffsets : CallGetInt32(o)
  \/ \E o \in IntOffsets, v \in U8Values : CallPutUint8(o, v)
  \/ \E o \in IntOffsets, v \in I8Values : CallPutInt8(o, v)
  \/ \E o \in IntOffsets, v \in U16Values : CallPutUint16(o, v)
  \/ \E o \in IntOffsets, v \in I16Values : CallPutInt16(o, v)
  \/ \E o \in IntOffsets, v \in U32Values : CallPutUint32(o, v)
  \/ \E o \in IntOffsets, v \in I32Values : CallPutInt32(o, v)
  \/ CallClearError

SpecInt == InitInt /\ [][NextInt]_vars

----------------------------------------------------------------------------
(* In-place compression and decompression on arbitrary content *)

\* longest arbitrary content the codec runs start from
MaxRegion == 3

CodecBytes == {0, 1, 2, 3}

\* regions worth replacing: complete streams that inflate to fewer, as many
\* and more bytes than they take, and a run that deflates to fewer
CodecRegions ==
  { <<ZHDR, ZEND>>, <<ZHDR, ZLIT, 2, ZEND>>, <<ZHDR, ZRUN, 1, ZEND>>,
    <<ZHDR, ZLIT, 1, ZLIT, 2, ZSYNC, ZEND>>, [i \in 1..RunLen |-> 1] }

CodecPrefixes == {<<>>, <<1>>}

CodecTails == {<<>>, <<2>>, <<2, 1>>}

CodecContents ==
  SeqsUpTo(CodecBytes, MaxRegion)
    \cup {p \o r \o t : p \in CodecPrefixes, r \in CodecRegions, t \in CodecTails}

CodecOffsets == {0, 1}

CodecSizes == {0, 1, 2, 3, 4, 5, 7}

Levels == {-2, 9}

InitCodec == \E content \in CodecContents : Wrap(content)

NextCodec ==
  \/ \E o \in CodecOffsets, n \in CodecSizes :
       CallDecompressReplace(o, n)
  \/ \E o \in CodecOffsets, n \in CodecSizes, l \in Levels : CallCompressReplace(o, n, l)
  \/ CallClearError

SpecCodec == InitCodec /\ [][NextCodec]_vars

----------------------------------------------------------------------------
(* Text fields on arbitrary content *)

\* longest buffer content of the text accesses
MaxStrLen == 3

\* 'A' and the terminator
StrBytes == {0, 65}

StrOffsets == {-1, 0, 1}

StrSizes == 0..MaxStrLen

\* "", "A", "AB", "e" with an acute accent (one byte in Windows-1252, two in
\* UTF-8) and a CJK character, which Windows-1252 does not have
StrValues == {<<>>, <<65>>, <<65, 66>>, <<195, 169>>, <<228, 184, 173>>}

Charmaps == {NilCharmap, Windows1252}

InitStr == \E content \in SeqsUpTo(StrBytes, MaxStrLen) : Wrap(content)

NextStr ==
  \/ \E o \in StrOffsets, n \in StrSizes, z \in BOOLEAN, c \in Charmaps :
       CallGetStringEx(o, n, z, c)
  \/ \E o \in StrOffsets, n \in StrSizes, z \in BOOLEAN : CallGetString(o, n, z)
  \/ \E o \in StrOffsets, n \in StrSizes, v \in StrValues, c \in Charmaps :
       CallPutStringEx(o, n, v, c)
  \/ \E o \in StrOffsets, n \in StrSizes, v \in StrValues : CallPutString(o, n, v)
  \/ CallClearError

SpecStr == InitStr /\ [][NextStr]_vars

----------------------------------------------------------------------------
(* Text reads on arbitrary content *)

\* the terminator, 'A', and two bytes whose UTF-8 form is longer: the euro
\* sign (0x80) and e with an acute accent (0xe9)
ReadBytes == {0, 65, 128, 233}

InitRead == \E content \in SeqsUpTo(ReadBytes, MaxStrLen) : Wrap(content)

NextRead ==
  \/ \E o \in StrOffsets, n \in StrSizes, z \in BOOLEAN, c \in Charmaps :
       CallGetStringEx(o, n, z, c)
  \/ \E o \in StrOffsets, n \in StrSizes, z \in BOOLEAN : CallGetString(o, n, z)
  \/ CallClearError

SpecRead == InitRead /\ [][NextRead]_vars

----------------------------------------------------------------------------
(* Offset arrays on buffers of three fields *)

\* the four little-endian bytes of a 32-bit value in two's complement
FieldOf(v) == [j \in 1..4 |-> (v \div (256 ^ (j - 1))) % 256]

\* where the buffers hold the offset of the list, the count and the index
Fields == [base |-> 1, count |-> 5, index |-> 9]

BaseValues == {-1, 0, 258}

CountValues == {-1, 3, 5}

IndexValues == {-1, 0, 2, 6}

\* the buffers: a byte, the three fields, and the same cut short inside the
\* index field
OfsContents ==
  LET whole == {<<7>> \o FieldOf(base) \o FieldOf(cnt) \o FieldOf(idx) :
                  base \in BaseValues, cnt \in CountValues, idx \in IndexValues}
  IN  whole \cup {SubSeq(c, 1, Fields.index + 2) : c \in whole}

\* well-formed argument lists: every field width, with and without an index
\* field, for substructures of 16 bytes
WellFormed ==
  {<<Fields.base, ow, Fields.count, cw, ix[1], ix[2], size>> :
     ow \in {2, 4}, cw \in {1, 2, 4},
     ix \in {<<0, 0>>, <<0, 1>>, <<Fields.index, 0>>, <<Fields.index, 1>>,
             <<Fields.index, 2>>, <<Fields.index, 4>>},
     size \in {16}}

\* malformed argument lists: one wrong value each, too few values, none
Malformed ==
  {<<0, 2, Fields.count, 1, Fields.index, 1, 16>>, <<-1, 2, Fields.count, 1, Fields.index, 1, 16>>,
   <<Fields.base, 2, 0, 1, Fields.index, 1, 16>>,
   <<Fields.base, 0, Fields.count, 1, Fields.index, 1, 16>>,
   <<Fields.base, 1, Fields.count, 1, Fields.index, 1, 16>>,
   <<Fields.base, 3, Fields.count, 1, Fields.index, 1, 16>>,
   <<Fields.base, 5, Fields.count, 1, Fields.index, 1, 16>>,
   <<Fields.base, 2, Fields.count, 0, Fields.index, 1, 16>>,
   <<Fields.base, 2, Fields.count, 3, Fields.index, 1, 16>>,
   <<Fields.base, 2, Fields.count, 5, Fields.index, 1, 16>>,
   <<Fields.base, 2, Fields.count, 1, Fields.index, -1, 16>>,
   <<Fields.base, 2, Fields.count, 1, Fields.index, 3, 16>>,
   <<Fields.base, 2, Fields.count, 1, Fields.index, 5, 16>>,
   <<Fields.base, 2, Fields.count, 1, 0, 3, 16>>,
   <<Fields.base, 2, Fields.count, 1, Fields.index, 1, 0>>,
   <<Fields.base, 2, Fields.count, 1, Fields.index, 1, -1>>,
   <<Fields.base, 2, Fields.count, 1, Fields.index, 1>>,
   <<>>}

InitOfs == \E content \in OfsContents : Wrap(content)

NextOfs ==
  \/ \E v \in WellFormed \cup Malformed : CallGetOffsetArray(v)
  \/ CallClearError

SpecOfs == InitOfs /\ [][NextOfs]_vars

----------------------------------------------------------------------------
(* Every method on a few buffers *)

\* a Buffer of a zlib stream, one of two 16-bit fields and an empty one
Contents == {<<>>, <<ZHDR, ZLIT, 65, ZEND>>, <<2, 0, 1, 0>>}

Offsets == {-1, 0, 2}

Sizes == {0, 2, 4}

\* 'A' as an unsigned and -1 as a signed value of each width
Unsigned == {65}

Signed == {-1}

Unsigned32 == {Word(65, 0)}

Texts == {<<65>>, <<228, 184, 173>>}

\* argument lists of GetOffsetArray: well-formed with and without an index
\* field, too short, and with a count field of width 3
SevenValues == {<<2, 2, 1, 1, 0, 0, 2>>, <<2, 2, 1, 1, 3, 1, 2>>, <<2, 2, 1>>,
                <<2, 2, 1, 3, 0, 0, 2>>}

Init ==
  \/ Create
  \/ \E content \in Contents : Wrap(content)
  \/ \E content \in Contents, e \in {NoError, ErrRead} : Load(content, e)

Next ==
  \/ \E o \in Offsets : CallGetUint8(o)
  \/ \E o \in Offsets : CallGetInt8(o)
  \/ \E o \in Offsets : CallGetUint16(o)
  \/ \E o \in Offsets : CallGetInt16(o)
  \/ \E o \in Offsets : CallGetUint32(o)
  \/ \E o \in Offsets : CallGetInt32(o)
  \/ \E o \in Offsets, n \in BitSizes : CallGetUint(o, n)
  \/ \E o \in Offsets, n \in BitSizes : CallGetInt(o, n)
  \/ \E o \in Offsets, n \in Sizes, z \in BOOLEAN, c \in Charmaps : CallGetStringEx(o, n, z, c)
  \/ \E o \in Offsets, n \in Sizes, z \in BOOLEAN : CallGetString(o, n, z)
  \/ \E o \in Offsets, n \in Sizes \cup {-1} : CallGetBuffer(o, n)
  \/ \E o \in Offsets, v \in Unsigned : CallPutUint8(o, v)
  \/ \E o \in Offsets, v \in Signed : CallPutInt8(o, v)
  \/ \E o \in Offsets, v \in Unsigned : CallPutUint16(o, v)
  \/ \E o \in Offsets, v \in Signed : CallPutInt16(o, v)
  \/ \E o \in Offsets, v \in Unsigned32 : CallPutUint32(o, v)
  \/ \E o \in Offsets, v \in Signed : CallPutInt32(o, v)
  \/ \E o \in Offsets, n \in Sizes, v \in Texts, c \in Charmaps : CallPutStringEx(o, n, v, c)
  \/ \E o \in Offsets, n \in Sizes, v \in Texts : CallPutString(o, n, v)
  \/ \E o \in Offsets, d \in Texts : CallPutBuffer(o, d)
  \/ \E d \in Contents : CallReplaceBuffer(d)
  \/ \E o \in Offsets, n \in Sizes : CallInsertBytes(o, n)
  \/ \E o \in Offsets, n \in Sizes : CallDeleteBytes(o, n)
  \/ \E o \in Offsets, n \in Sizes, d \in {<<>>, <<7>>} : CallDecompressInto(o, n, d)
  \/ \E o \in Offsets, n \in Sizes : CallDecompressReplace(o, n)
  \/ \E o \in Offsets, n \in Sizes, l \in Levels, d \in {<<>>, <<7>>} : CallCompressInto(o, n, l, d)
  \/ \E o \in Offsets, n \in Sizes, l \in Levels : CallCompressReplace(o, n, l)
  \/ \E v \in SevenValues : CallGetOffsetArray(v)
  \/ \E o \in {0, 1}, v \in SevenValues : CallGetOffsetArray2(o, v)
  \/ \E a \in BOOLEAN : CallSave(a)
  \/ CallBytes
  \/ CallError
  \/ CallClearError
  \/ CallBufferLength
  \/ CallIsModified
  \/ CallClearModified

Spec == Init /\ [][Next]_vars

----------------------------------------------------------------------------
(* The texture container (package pvrz).  A Pvr is a record of its header   *)
(* information, its image and its error.  The block codec (go-squish) is    *)
(* reduced to what the container needs of it: the number of bytes a         *)
(* texture takes, and an image that keeps the blocks it was decoded from.   *)
(* Go's int is taken to be 64 bits wide: no sum below overflows.            *)

TYPE_BC1 == 7
TYPE_BC2 == 9
TYPE_BC3 == 11
SPACE_LRGB == 0
CHAN_UBN == 0
CHAN_SB == 3
QUALITY_DEFAULT == 1
versionSig == 55727696

\* the length of the PVR header (0x34)
HeaderSize == 52
\* the largest accepted size of decompressed PVRZ data (1 << 25)
MaxTargetSize == 33554432
\* the largest accepted width and height
MaxDimension == 4096

ErrTooSmall == "Input buffer too small"
ErrTargetSize == "PVR target size outside of accepted limits"
ErrSizeMismatch == "PVRZ data size mismatch"
ErrSignature == "Invalid PVR header signature"
ErrPvrTooSmall == "PVR input buffer too small"
ErrExtendedFormat == "Extended pixel format not supported"
ErrPixelFormat == "Unsupported pixel format"
ErrColorSpace == "Unsupported color space"
ErrChannelType == "Unsupported channel type"
ErrHeight == "Unsupported texture height"
ErrHeightMultiple == "Texture height must be a multiple of 4"
ErrWidth == "Unsupported texture width"
ErrWidthMultiple == "Texture width must be a multiple of 4"
ErrDepth == "Unsupported texture depth"
ErrSurfaces == "Unsupported number of texture surfaces"
ErrFaces == "Unsupported number of texture faces"
ErrMipMaps == "Unsupported number of texture mip maps"
ErrMetadata == "Metadata size mismatch"
ErrDecoding == "Error while decoding texture data"

\* an image of the given size; pixels holds its width * height pixels row
\* by row, each a colour 0..255 (0 is the transparent black of a new image)
Image(width, height, pixels) ==
  [nil |-> FALSE, width |-> width, height |-> height, pixels |-> pixels]

NilImage == [nil |-> TRUE, width |-> 0, height |-> 0, pixels |-> <<>>]

\* image.NewRGBA(image.Rect(0, 0, width, height))
NewRGBA(width, height) == Image(width, height, Zeros(width * height))

\* the pixel of img at column x of row y
PixelAt(img, x, y) == img.pixels[y * img.width + x + 1]

\* draw.Draw(dst, dst.Bounds(), src, src.Bounds().Min, draw.Src): src is
\* copied onto the top left of dst, as far as both have pixels
Draw(dst, src) ==
  Image(dst.width, dst.height,
        [k \in 1..(dst.width * dst.height) |->
           IF (k - 1) % dst.width < src.width /\ (k - 1) \div dst.width < src.height
           THEN PixelAt(src, (k - 1) % dst.width, (k - 1) \div dst.width)
           ELSE dst.pixels[k]])

\* the bytes of one 4x4 block: 8 (DXT1) or 16
BlockSize(pixelType) == IF pixelType = TYPE_BC1 THEN 8 ELSE 16

\* squish.GetStorageRequirements
GetStorageRequirements(width, height, pixelType) ==
  ((width + 3) \div 4) * ((height + 3) \div 4) * BlockSize(pixelType)

\* squish.DecompressImage.  The codec is lossy for DXT1: a block keeps the
\* upper four bits of each of its 16 pixels, two pixels to a byte; the
\* other formats keep one byte per pixel.  Blocks follow each other row by
\* row, and so do the pixels within a block.
DecompressImage(width, height, data, pixelType) ==
  Image(width, height,
        [k \in 1..(width * height) |->
           LET x == (k - 1) % width
               y == (k - 1) \div width
               block == (y \div 4) * ((width + 3) \div 4) + (x \div 4)
               n == (y % 4) * 4 + (x % 4)
           IN  IF pixelType = TYPE_BC1
               THEN IF n % 2 = 0 THEN (data[block * 8 + (n \div 2) + 1] \div 16) * 16
                    ELSE (data[block * 8 + (n \div 2) + 1] % 16) * 16
               ELSE data[block * 16 + n + 1]])

\* squish.CompressImage: the blocks of img; a block that reaches beyond the
\* image is filled up with 0.  Quality, weighting and metric choose among
\* encodings of the same pixels and are left out.
CompressImage(img, pixelType) ==
  [k \in 1..GetStorageRequirements(img.width, img.height, pixelType) |->
     LET block == (k - 1) \div BlockSize(pixelType)
         j == (k - 1) % BlockSize(pixelType)
         left == (block % ((img.width + 3) \div 4)) * 4
         top == (block \div ((img.width + 3) \div 4)) * 4
         pixel(n) == IF left + (n % 4) < img.width /\ top + (n \div 4) < img.height
                     THEN PixelAt(img, left + (n % 4), top + (n \div 4))
                     ELSE 0
     IN  IF pixelType = TYPE_BC1
         THEN (pixel(2 * j) \div 16) * 16 + (pixel(2 * j + 1) \div 16)
         ELSE pixel(j)]

CreateNew(width, height, pixelType) ==
  LET w == IF width < 1 THEN 1 ELSE width
      h == IF height < 1 THEN 1 ELSE height
  IN  [info |-> [flags |-> 0, pixelType |-> pixelType, colorSpace |-> SPACE_LRGB,
                 channelType |-> CHAN_UBN, height |-> h, width |-> w, depth |-> 1,
                 numSurfaces |-> 1, numFaces |-> 1, numMipMaps |-> 1, meta |-> <<>>],
       img |-> NewRGBA(w, h),
       err |-> NoError,
       quality |-> QUALITY_DEFAULT, weightByAlpha |-> FALSE, useMetric |-> FALSE]

pixelTypeSupported(value) == value \in {TYPE_BC1, TYPE_BC2, TYPE_BC3}

\* data is never nil here: importPvr passes a subslice of buf.Bytes()
decodeTexture(data, width, height, pixelType) ==
  IF width <= 0 \/ height <= 0 THEN NilImage
  ELSE IF ~pixelTypeSupported(pixelType) THEN NilImage
  ELSE DecompressImage(width, height, data, pixelType)

\* int(buf.GetInt32(offset))
Field(b, offset) == GetInt32(b, offset).ret

\* the outcome of importPvr: the Pvr, the local Buffer and whether it panicked
Imported(p, b) == [p |-> p, b |-> b, panic |-> FALSE]

ImportFailed(p, b, e) == [p |-> [p EXCEPT !.err = e], b |-> b, panic |-> FALSE]

ImportPanic(p, b) == [p |-> p, b |-> b, panic |-> TRUE]

\* importTexture that stores the header before the texture is decoded
importTextureHeaderFirst(p, b, ofsData, meta) ==
  LET width == Field(b, 28)
      height == Field(b, 24)
      pixelType == Field(b, 8)
      texSize == GetStorageRequirements(width, height, pixelType)
      info == [flags |-> Field(b, 4), pixelType |-> pixelType,
               colorSpace |-> Field(b, 16), channelType |-> Field(b, 20),
               height |-> height, width |-> width, depth |-> Field(b, 32),
               numSurfaces |-> Field(b, 36), numFaces |-> Field(b, 40),
               numMipMaps |-> Field(b, 44), meta |-> meta]
      q == [p EXCEPT !.info = info]
  IN  IF Len(b.buf) - ofsData < texSize THEN ImportFailed(q, b, ErrPvrTooSmall)
      ELSE IF ofsData < 0 \/ ofsData > Len(b.buf) THEN ImportPanic(q, b)
      ELSE
        LET img == decodeTexture(Slice(Bytes(b).ret, ofsData, Len(b.buf)),
                                 width, height, pixelType)
        IN  IF img.nil THEN ImportFailed(q, b, ErrDecoding)
            ELSE Imported([q EXCEPT !.img = img], b)

\* the end of importPvr: the texture at ofsData is decoded and, if that
\* worked, header, metadata and image are stored
importTexture(p, b, ofsData, meta) ==
  LET width == Field(b, 28)
      height == Field(b, 24)
      pixelType == Field(b, 8)
      texSize == GetStorageRequirements(width, height, pixelType)
  IN  IF Len(b.buf) - ofsData < texSize THEN ImportFailed(p, b, ErrPvrTooSmall)
      \* buf.Bytes()[ofsData:] panics when ofsData is no index of the slice
      ELSE IF ofsData < 0 \/ ofsData > Len(b.buf) THEN ImportPanic(p, b)
      ELSE
        LET img == decodeTexture(Slice(Bytes(b).ret, ofsData, Len(b.buf)),
                                 width, height, pixelType)
        IN  IF img.nil THEN ImportFailed(p, b, ErrDecoding)
            ELSE Imported([p EXCEPT
                             !.info = [flags |-> Field(b, 4), pixelType |-> pixelType,
                                       colorSpace |-> Field(b, 16),
                                       channelType |-> Field(b, 20),
                                       height |-> height, width |-> width,
                                       depth |-> Field(b, 32),
                                       numSurfaces |-> Field(b, 36),
                                       numFaces |-> Field(b, 40),
                                       numMipMaps |-> Field(b, 44), meta |-> meta],
                             !.img = img], b)

\* the header checks that accept any number of mip maps
headerErrorAnyMipMaps(b) ==
  IF Field(b, 12) # 0 THEN ErrExtendedFormat
  ELSE IF ~pixelTypeSupported(Field(b, 8)) THEN ErrPixelFormat
  ELSE IF Field(b, 16) < 0 \/ Field(b, 16) > 1 THEN ErrColorSpace
  ELSE IF Field(b, 20) < CHAN_UBN \/ Field(b, 20) > CHAN_SB THEN ErrChannelType
  ELSE IF Field(b, 24) < 0 \/ Field(b, 24) > MaxDimension THEN ErrHeight
  ELSE IF Field(b, 24) % 4 # 0 THEN ErrHeightMultiple
  ELSE IF Field(b, 28) < 0 \/ Field(b, 28) > MaxDimension THEN ErrWidth
  ELSE IF Field(b, 28) % 4 # 0 THEN ErrWidthMultiple
  ELSE IF Field(b, 32) # 1 THEN ErrDepth
  ELSE IF Field(b, 36) # 1 THEN ErrSurfaces
  ELSE IF Field(b, 40) # 1 THEN ErrFaces
  ELSE NoError

\* the checks of the header fields, in the order importPvr makes them: the
\* error of the first that fails
headerError(b) ==
  IF Field(b, 12) # 0 THEN ErrExtendedFormat
  ELSE IF ~pixelTypeSupported(Field(b, 8)) THEN ErrPixelFormat
  ELSE IF Field(b, 16) < 0 \/ Field(b, 16) > 1 THEN ErrColorSpace
  ELSE IF Field(b, 20) < CHAN_UBN \/ Field(b, 20) > CHAN_SB THEN ErrChannelType
  ELSE IF Field(b, 24) < 0 \/ Field(b, 24) > MaxDimension THEN ErrHeight
  \* (height & 3) != 0, of a height that is not negative
  ELSE IF Field(b, 24) % 4 # 0 THEN ErrHeightMultiple
  ELSE IF Field(b, 28) < 0 \/ Field(b, 28) > MaxDimension THEN ErrWidth
  ELSE IF Field(b, 28) % 4 # 0 THEN ErrWidthMultiple
  ELSE IF Field(b, 32) # 1 THEN ErrDepth
  ELSE IF Field(b, 36) # 1 THEN ErrSurfaces
  ELSE IF Field(b, 40) # 1 THEN ErrFaces
  ELSE IF Field(b, 44) # 1 THEN ErrMipMaps
  ELSE NoError

\* the metadata length as the header gives it
metaLengthAsRead(b) == Field(b, 48)

\* metaLen: a negative metadata length counts as none
metaLength(b) == IF Field(b, 48) < 0 THEN 0 ELSE Field(b, 48)

\* importPvr from "parsing PVR header" to the metadata
parseHeader(p, b) ==
  IF Field(b, 0) # versionSig THEN ImportFailed(p, b, ErrSignature)
  ELSE IF Len(b.buf) < HeaderSize THEN ImportFailed(p, b, ErrPvrTooSmall)
  ELSE IF headerError(b) # NoError THEN ImportFailed(p, b, headerError(b))
  ELSE
    LET metaLen == metaLength(b)
    IN  IF Len(b.buf) < HeaderSize + metaLen THEN ImportFailed(p, b, ErrMetadata)
        ELSE importTexture(p, b, HeaderSize + metaLen,
                           IF metaLen > 0 THEN GetBuffer(b, HeaderSize, metaLen).ret
                           ELSE <<>>)

\* whether importPvr takes sig for the size of decompressed PVRZ data,
\* without the lower limit
targetSizeAcceptedBelowHeader(sig) == sig <= MaxTargetSize

\* whether importPvr takes sig for the size of decompressed PVRZ data
targetSizeAccepted(sig) == ~(sig < HeaderSize \/ sig > MaxTargetSize)

\* the PVRZ branch that keeps what the stream holds beyond the declared size
importPvrzKeepsExcess(p, b, sig) ==
  LET inflated == DecompressReplace(b, 4, Len(b.buf) - 4)
  IN  IF inflated.panic THEN ImportPanic(p, ObjOf(inflated))
      ELSE IF inflated.err # NoError THEN ImportFailed(p, ObjOf(inflated), inflated.err)
      ELSE
        LET cut == DeleteBytes(ObjOf(inflated), 0, 4)
        IN  IF cut.panic THEN ImportPanic(p, ObjOf(cut))
            ELSE IF Len(cut.buf) < sig THEN ImportFailed(p, ObjOf(cut), ErrSizeMismatch)
            ELSE
              LET fit == cut
              IN  IF fit.panic THEN ImportPanic(p, ObjOf(fit))
                  ELSE parseHeader(p, ObjOf(fit))

\* the steps of the PVRZ branch after the size check
importPvrz(p, b, sig) ==
  LET inflated == DecompressReplace(b, 4, Len(b.buf) - 4)
  IN  IF inflated.panic THEN ImportPanic(p, ObjOf(inflated))
      ELSE IF inflated.err # NoError THEN ImportFailed(p, ObjOf(inflated), inflated.err)
      ELSE
        LET cut == DeleteBytes(ObjOf(inflated), 0, 4)
        IN  IF cut.panic THEN ImportPanic(p, ObjOf(cut))
            ELSE IF Len(cut.buf) < sig THEN ImportFailed(p, ObjOf(cut), ErrSizeMismatch)
            ELSE
              LET fit == IF Len(cut.buf) > sig
                         THEN DeleteBytes(ObjOf(cut), sig, Len(cut.buf) - sig)
                         ELSE cut
              IN  IF fit.panic THEN ImportPanic(p, ObjOf(fit))
                  ELSE parseHeader(p, ObjOf(fit))

\* data is not nil: Load passes the slice it read into
importPvr(p, data) ==
  LET b == [buf |-> data, dirty |-> FALSE, err |-> NoError]
  IN  IF Len(data) < 4 THEN ImportFailed(p, b, ErrTooSmall)
      ELSE IF Field(b, 0) # versionSig
           THEN IF ~targetSizeAccepted(Field(b, 0)) THEN ImportFailed(p, b, ErrTargetSize)
                ELSE importPvrz(p, b, Field(b, 0))
           ELSE parseHeader(p, b)

\* the Pvr Load() starts from
Blank == CreateNew(0, 0, TYPE_BC1)

\* Load(r): data is what r gave, e the error r ended with (nil for io.EOF)
PvrLoad(data, e) ==
  IF e # NoError
  THEN ImportFailed(Blank, [buf |-> <<>>, dirty |-> FALSE, err |-> NoError], e)
  ELSE importPvr(Blank, data)

PvrError(p) == p.err

PvrClearError(p) == [p EXCEPT !.err = NoError]

GetWidth(p) == IF p.err # NoError THEN 0 ELSE p.info.width

GetHeight(p) == IF p.err # NoError THEN 0 ELSE p.info.height

\* one step of a program that holds a Pvr: pre is the Pvr the step started
\* from, q the one it ended with
PvrStep(op, arg, p, q, returned) ==
  /\ ~crashed
  /\ steps < MaxSteps
  /\ steps' = steps + 1
  /\ pre' = p
  /\ pvr' = q
  /\ last' = [op |-> op, arg |-> arg, returned |-> returned]

\* p = Load(r); buf, dirty and err show the Buffer importPvr worked on
CallPvrLoad(data, e) ==
  LET r == PvrLoad(data, e)
  IN  /\ PvrStep("Load", [data |-> data, e |-> e], Blank, r.p, <<>>)
      /\ buf' = r.b.buf
      /\ dirty' = r.b.dirty
      /\ err' = r.b.err
      /\ crashed' = r.panic

CallPvrError ==
  /\ PvrStep("Error", <<>>, pvr, pvr, <<PvrError(pvr)>>)
  /\ UNCHANGED <<buf, dirty, err, crashed>>

CallPvrClearError ==
  /\ PvrStep("ClearError", <<>>, pvr, PvrClearError(pvr), <<>>)
  /\ UNCHANGED <<buf, dirty, err, crashed>>

CallGetWidth ==
  /\ PvrStep("GetWidth", <<>>, pvr, pvr, <<GetWidth(pvr)>>)
  /\ UNCHANGED <<buf, dirty, err, crashed>>

CallGetHeight ==
  /\ PvrStep("GetHeight", <<>>, pvr, pvr, <<GetHeight(pvr)>>)
  /\ UNCHANGED <<buf, dirty, err, crashed>>

----------------------------------------------------------------------------
(* Loading containers: one well-formed header and headers that differ from  *)
(* it in one field, with and without metadata, with a texture of several    *)
(* lengths, as PVR and wrapped as PVRZ                                      *)

\* the four bytes of the int32 v
Int32Bytes(v) == LittleEndianPutUint32(Zeros(4), 0, ToUint32(v))

HeaderFields ==
  <<"sig", "flags", "pixelType", "pf", "colorSpace", "channelType", "height",
    "width", "depth", "numSurfaces", "numFaces", "numMipMaps", "metaLen">>

HeaderBytes(h) == Flatten([i \in 1..Len(HeaderFields) |-> Int32Bytes(h[HeaderFields[i]])])

GoodHeader ==
  [sig |-> versionSig, flags |-> 2, pixelType |-> TYPE_BC1, pf |-> 0,
   colorSpace |-> 1, channelType |-> 2, height |-> 4, width |-> 8, depth |-> 1,
   numSurfaces |-> 1, numFaces |-> 1, numMipMaps |-> 1, metaLen |-> 0]

OtherValues ==
  [sig |-> {0, 60, -1}, flags |-> {0}, pixelType |-> {TYPE_BC2, TYPE_BC3, 8},
   pf |-> {1}, colorSpace |-> {0, 2, -1}, channelType |-> {3, 4, -1},
   height |-> {0, 6, 4100, -4}, width |-> {0, 4, 6, 4100, -4}, depth |-> {0, 2},
   numSurfaces |-> {0, 2}, numFaces |-> {0, 2}, numMipMaps |-> {0, 2},
   metaLen |-> {-1, -60, 2, 3, 100}]

Headers ==
  {GoodHeader} \cup
  UNION {{[GoodHeader EXCEPT ![f] = v] : v \in OtherValues[f]} : f \in DOMAIN OtherValues}

Metas == {<<>>, <<77, 78>>}

\* n bytes of texture data, all different
Texture(n) == [i \in 1..n |-> 100 + i]

TextureLengths == {0, 15, 16, 32}

Container(h, meta, n) == HeaderBytes(h) \o meta \o Texture(n)

\* every header with a texture that is long enough; the headers whose
\* metadata and texture size matter with each metadata and texture; and
\* inputs that are cut short
Containers ==
  {Container(h, <<>>, 32) : h \in Headers}
  \cup {Container(h, meta, n) :
          h \in {GoodHeader, [GoodHeader EXCEPT !.pixelType = TYPE_BC3]}
                 \cup {[GoodHeader EXCEPT !.metaLen = v] : v \in OtherValues.metaLen},
          meta \in Metas, n \in TextureLengths}
  \cup {SubSeq(Container(GoodHeader, <<>>, 16), 1, n) : n \in {0, 3, 4, 51}}

\* data as a sequence of literal blocks
Literals(data) == [k \in 1..(2 * Len(data)) |-> IF k % 2 = 1 THEN ZLIT ELSE data[k \div 2]]

\* the stream that holds data
Stream(data) == <<ZHDR>> \o Literals(data) \o <<ZEND>>

\* the stream that holds data, and the same cut short, ending in a block of
\* no known kind, or with a wrong header
Streams(data) ==
  {Stream(data), <<ZHDR>> \o Literals(data), <<ZHDR>> \o Literals(data) \o <<9>>,
   <<ZLIT>> \o Literals(data) \o <<ZEND>>, <<>>}

\* PVRZ input: a declared size in front of a stream
Wrapped ==
  LET good == Container(GoodHeader, <<>>, 18)
      bad == {Container([GoodHeader EXCEPT !.numMipMaps = 2], <<>>, 18),
              Container([GoodHeader EXCEPT !.metaLen = 100], <<>>, 18),
              Container([GoodHeader EXCEPT !.sig = 0], <<>>, 18)}
  IN  {Int32Bytes(size) \o stream :
         size \in {Len(good), Len(good) - 2, Len(good) + 1, -1, 51, 52,
                   MaxTargetSize, MaxTargetSize + 1},
         stream \in Streams(good)}
      \cup {Int32Bytes(Len(data) - 2) \o Stream(data) : data \in bad}

InitPvr ==
  /\ \E width \in {0, 8}, height \in {0, 8}, pixelType \in {TYPE_BC1, TYPE_BC3} :
       /\ pvr = CreateNew(width, height, pixelType)
       /\ pre = CreateNew(width, height, pixelType)
       /\ last = [op |-> "CreateNew",
                  arg |-> [width |-> width, height |-> height, pixelType |-> pixelType],
                  returned |-> <<>>]
  /\ buf = <<>>
  /\ dirty = FALSE
  /\ err = NoError
  /\ crashed = FALSE
  /\ steps = 0

NextPvr ==
  \/ \E data \in Containers \cup Wrapped : CallPvrLoad(data, NoError)
  \/ \E data \in {<<>>, Container(GoodHeader, <<>>, 16)} : CallPvrLoad(data, ErrRead)
  \/ CallPvrError
  \/ CallPvrClearError
  \/ CallGetWidth
  \/ CallGetHeight

SpecPvr == InitPvr /\ [][NextPvr]_vars

----------------------------------------------------------------------------
(* Editing and saving a container *)

SPACE_SRGB == 1
QUALITY_LOW == 0
QUALITY_HIGH == 2

ErrEncoding == "Unable to encode texture data"

\* SetImage that leaves the recorded width and height alone
SetImageKeepsSize(p, img) ==
  IF p.err # NoError THEN p
  ELSE IF img.nil THEN [p EXCEPT !.err = ErrIllegalArguments]
  ELSE [p EXCEPT !.img = Draw(NewRGBA(img.width, img.height), img)]

SetImage(p, img) ==
  IF p.err # NoError THEN p
  ELSE IF img.nil THEN [p EXCEPT !.err = ErrIllegalArguments]
  ELSE [p EXCEPT !.info.width = img.width,
                 !.info.height = img.height,
                 !.img = Draw(NewRGBA(img.width, img.height), img)]

GetImage(p) ==
  IF p.err # NoError THEN NilImage
  ELSE Draw(NewRGBA(p.info.width, p.info.height), p.img)

\* resizeCanvas that never carries the old content over
resizeCanvasBlank(img, width, height, preserve) == NewRGBA(width, height)

resizeCanvas(img, width, height, preserve) ==
  IF preserve THEN Draw(NewRGBA(width, height), img) ELSE NewRGBA(width, height)

\* resizeCanvas never returns nil, so the check of its result never fails
SetDimension(p, width, height, preserve) ==
  IF p.err # NoError THEN p
  ELSE IF width = p.info.width /\ height = p.info.height /\ preserve THEN p
  ELSE IF width < 1 THEN [p EXCEPT !.err = ErrIllegalArguments]
  ELSE IF height < 1 THEN [p EXCEPT !.err = ErrIllegalArguments]
  ELSE
    LET imgNew == resizeCanvas(p.img, width, height, preserve)
    IN  [p EXCEPT !.info.width = imgNew.width, !.info.height = imgNew.height,
                  !.img = imgNew]

GetPixelType(p) == p.info.pixelType

SetPixelType(p, pixelType) ==
  IF p.err # NoError THEN p
  ELSE IF ~pixelTypeSupported(pixelType) THEN [p EXCEPT !.err = ErrIllegalArguments]
  ELSE [p EXCEPT !.info.pixelType = pixelType]

GetChannelType(p) == IF p.err # NoError THEN 0 ELSE p.info.channelType

SetChannelType(p, channelType) ==
  IF p.err # NoError THEN p
  ELSE IF channelType < CHAN_UBN \/ channelType > CHAN_SB
       THEN [p EXCEPT !.err = ErrIllegalArguments]
  ELSE [p EXCEPT !.info.channelType = channelType]

GetColorSpace(p) == IF p.err # NoError THEN 0 ELSE p.info.colorSpace

SetColorSpace(p, colorSpace) ==
  IF p.err # NoError THEN p
  ELSE IF colorSpace # SPACE_LRGB /\ colorSpace # SPACE_SRGB
       THEN [p EXCEPT !.err = ErrIllegalArguments]
  ELSE [p EXCEPT !.info.colorSpace = colorSpace]

GetQuality(p) == IF p.err # NoError THEN 0 ELSE p.quality

\* SetQuality that stores the value as given
SetQualityAsGiven(p, q) ==
  IF p.err # NoError THEN p ELSE [p EXCEPT !.quality = q]

SetQuality(p, q) ==
  IF p.err # NoError THEN p
  ELSE [p EXCEPT !.quality = IF q < QUALITY_LOW THEN QUALITY_LOW
                             ELSE IF q > QUALITY_HIGH THEN QUALITY_HIGH
                             ELSE q]

GetWeightByAlpha(p) == IF p.err # NoError THEN FALSE ELSE p.weightByAlpha

SetWeightByAlpha(p, set) ==
  IF p.err # NoError THEN p ELSE [p EXCEPT !.weightByAlpha = set]

IsPerceptiveMetric(p) == IF p.err # NoError THEN FALSE ELSE p.useMetric

SetPerceptiveMetric(p, set) ==
  IF p.err # NoError THEN p ELSE [p EXCEPT !.useMetric = set]

\* the encoded texture, or nil.  The sizes are rounded up to a multiple of
\* 4 ((n + 3) & ^3) after the first check has refused every other size.
encodeTexture(img, pixelType, quality, weightByAlpha, useMetric) ==
  IF img.width < 1 \/ img.width % 4 # 0 \/ img.height < 1 \/ img.height % 4 # 0
  THEN [nil |-> TRUE, data |-> <<>>]
  ELSE IF ~pixelTypeSupported(pixelType) THEN [nil |-> TRUE, data |-> <<>>]
  ELSE
    LET newWidth == ((img.width + 3) \div 4) * 4
        newHeight == ((img.height + 3) \div 4) * 4
        canvas == IF newWidth # img.width \/ newHeight # img.height
                  THEN resizeCanvas(img, newWidth, newHeight, TRUE)
                  ELSE img
    IN  [nil |-> FALSE,
         data |-> CompressImage(Draw(NewRGBA(canvas.width, canvas.height), canvas),
                                pixelType)]

RECURSIVE PutFields(_, _)
\* buf.PutInt32(offset, int32(value)) for each <<offset, value>> in turn;
\* every offset lies within the buffer, so none of the calls fails
PutFields(b, fields) ==
  IF fields = <<>> THEN b
  ELSE PutFields(ObjOf(PutInt32(b, fields[1][1], fields[1][2])), Tail(fields))

\* prepareHeader that stores the width before the height
prepareHeaderWidthFirst(p) ==
  LET room == ObjOf(InsertBytes([buf |-> Zeros(256), dirty |-> FALSE, err |-> NoError],
                                0, HeaderSize))
      filled == PutFields(room,
                  << <<0, versionSig>>, <<4, p.info.flags>>, <<8, p.info.pixelType>>,
                     <<12, 0>>, <<16, p.info.colorSpace>>, <<20, p.info.channelType>>,
                     <<24, p.info.width>>, <<28, p.info.height>>, <<32, p.info.depth>>,
                     <<36, p.info.numSurfaces>>, <<40, p.info.numFaces>>,
                     <<44, p.info.numMipMaps>>, <<48, Len(p.info.meta)>> >>)
  IN  Bytes(IF Len(p.info.meta) > 0
            THEN ObjOf(PutBuffer(ObjOf(InsertBytes(filled, HeaderSize, Len(p.info.meta))),
                                 HeaderSize, p.info.meta))
            ELSE filled).ret

\* the header is written into the Buffer that Create() returns, which holds
\* 256 bytes already
prepareHeader(p) ==
  LET room == ObjOf(InsertBytes([buf |-> Zeros(256), dirty |-> FALSE, err |-> NoError],
                                0, HeaderSize))
      filled == PutFields(room,
                  << <<0, versionSig>>, <<4, p.info.flags>>, <<8, p.info.pixelType>>,
                     <<12, 0>>, <<16, p.info.colorSpace>>, <<20, p.info.channelType>>,
                     <<24, p.info.height>>, <<28, p.info.width>>, <<32, p.info.depth>>,
                     <<36, p.info.numSurfaces>>, <<40, p.info.numFaces>>,
                     <<44, p.info.numMipMaps>>, <<48, Len(p.info.meta)>> >>)
  IN  Bytes(IF Len(p.info.meta) > 0
            THEN ObjOf(PutBuffer(ObjOf(InsertBytes(filled, HeaderSize, Len(p.info.meta))),
                                 HeaderSize, p.info.meta))
            ELSE filled).ret

\* the Pvr after the export and the exported bytes (none on failure)
exportPvr(p) ==
  LET hdr == prepareHeader(p)
      out == encodeTexture(p.img, p.info.pixelType, p.quality, p.weightByAlpha,
                           p.useMetric)
  IN  IF out.nil THEN [p |-> [p EXCEPT !.err = ErrEncoding], data |-> <<>>]
      ELSE [p |-> p, data |-> hdr \o out.data]

\* Save(w, compress): the Pvr afterwards, the local Buffer, whether w.Write
\* was called and with what, and whether a call panicked
PvrSave(p, compress) ==
  LET none == [buf |-> <<>>, dirty |-> FALSE, err |-> NoError]
      exported == exportPvr(p)
      wrapped == [buf |-> exported.data, dirty |-> FALSE, err |-> NoError]
      packed == CompressReplace(wrapped, 0, Len(exported.data), 9)
      room == InsertBytes(ObjOf(packed), 0, 4)
      sized == PutInt32(ObjOf(room), 0, Len(exported.data))
  IN  IF p.err # NoError
      THEN [p |-> p, b |-> none, wrote |-> FALSE, out |-> <<>>, panic |-> FALSE]
      ELSE IF exported.p.err # NoError
      THEN [p |-> exported.p, b |-> none, wrote |-> FALSE, out |-> <<>>, panic |-> FALSE]
      ELSE IF ~compress
      THEN [p |-> p, b |-> wrapped, wrote |-> TRUE, out |-> Bytes(wrapped).ret,
            panic |-> FALSE]
      ELSE IF packed.panic \/ room.panic \/ sized.panic
      THEN [p |-> p, b |-> none, wrote |-> FALSE, out |-> <<>>, panic |-> TRUE]
      ELSE [p |-> p, b |-> ObjOf(sized), wrote |-> TRUE, out |-> Bytes(ObjOf(sized)).ret,
            panic |-> FALSE]

\* one call of a program on the Pvr it holds
PvrCall(op, arg, q, returned) ==
  /\ ~crashed
  /\ steps < MaxSteps
  /\ steps' = steps + 1
  /\ pre' = pvr
  /\ pvr' = q
  /\ last' = [op |-> op, arg |-> arg, returned |-> returned]

\* a call that does not write
PvrEdit(op, arg, q, returned) ==
  /\ PvrCall(op, arg, q, returned)
  /\ UNCHANGED <<buf, dirty, err, crashed>>

CallSetImage(img) == PvrEdit("SetImage", [img |-> img], SetImage(pvr, img), <<>>)

CallGetImage == PvrEdit("GetImage", <<>>, pvr, <<GetImage(pvr)>>)

CallSetDimension(width, height, preserve) ==
  PvrEdit("SetDimension", [width |-> width, height |-> height, preserve |-> preserve],
          SetDimension(pvr, width, height, preserve), <<>>)

CallGetPixelType == PvrEdit("GetPixelType", <<>>, pvr, <<GetPixelType(pvr)>>)

CallSetPixelType(v) == PvrEdit("SetPixelType", [value |-> v], SetPixelType(pvr, v), <<>>)

CallGetChannelType == PvrEdit("GetChannelType", <<>>, pvr, <<GetChannelType(pvr)>>)

CallSetChannelType(v) ==
  PvrEdit("SetChannelType", [value |-> v], SetChannelType(pvr, v), <<>>)

CallGetColorSpace == PvrEdit("GetColorSpace", <<>>, pvr, <<GetColorSpace(pvr)>>)

CallSetColorSpace(v) ==
  PvrEdit("SetColorSpace", [value |-> v], SetColorSpace(pvr, v), <<>>)

CallGetQuality == PvrEdit("GetQuality", <<>>, pvr, <<GetQuality(pvr)>>)

CallSetQuality(v) == PvrEdit("SetQuality", [value |-> v], SetQuality(pvr, v), <<>>)

CallGetWeightByAlpha == PvrEdit("GetWeightByAlpha", <<>>, pvr, <<GetWeightByAlpha(pvr)>>)

CallSetWeightByAlpha(v) ==
  PvrEdit("SetWeightByAlpha", [value |-> v], SetWeightByAlpha(pvr, v), <<>>)

CallIsPerceptiveMetric ==
  PvrEdit("IsPerceptiveMetric", <<>>, pvr, <<IsPerceptiveMetric(pvr)>>)

CallSetPerceptiveMetric(v) ==
  PvrEdit("SetPerceptiveMetric", [value |-> v], SetPerceptiveMetric(pvr, v), <<>>)

CallWidth == PvrEdit("GetWidth", <<>>, pvr, <<GetWidth(pvr)>>)

CallHeight == PvrEdit("GetHeight", <<>>, pvr, <<GetHeight(pvr)>>)

CallErrorOfPvr == PvrEdit("Error", <<>>, pvr, <<PvrError(pvr)>>)

CallClearErrorOfPvr == PvrEdit("ClearError", <<>>, PvrClearError(pvr), <<>>)

\* p.Save(w, compress) with an empty w: buf is what w received, dirty and err
\* are those of the Buffer Save worked on
\* the state after Save has returned r
SaveReturns(compress, r) ==
  /\ PvrCall("Save", [compress |-> compress], r.p, <<r.wrote>>)
  /\ buf' = r.out
  /\ dirty' = r.b.dirty
  /\ err' = r.b.err
  /\ crashed' = r.panic

CallPvrSave(compress) == SaveReturns(compress, PvrSave(pvr, compress))

\* the state after Load has returned r
LoadReturns(data, r) ==
  /\ PvrCall("Load", [data |-> data, e |-> NoError], r.p, <<>>)
  /\ buf' = r.b.buf
  /\ dirty' = r.b.dirty
  /\ err' = r.b.err
  /\ crashed' = r.panic

\* p = Load(r) with r reading data: what w received from the Save before, or
\* other bytes; pre is the Pvr held until then
CallLoadBytes(data) == LoadReturns(data, PvrLoad(data, NoError))

CallLoadSaved == last.op = "Save" /\ CallLoadBytes(buf)

\* an image of the given size whose neighbouring pixels differ in colour
Picture(width, height) ==
  Image(width, height, [k \in 1..(width * height) |-> 16 * ((k % 15) + 1) + (k % 7)])

Pictures == {NilImage, Picture(0, 0), Picture(8, 4)}

Dimensions == {<<0, 4>>, <<4, 0>>, <<0, 0>>, <<4, 4>>, <<10, 8>>}

\* the arguments of CreateNew: width and pixel type (0 is no pixel type)
Created == {<<6, TYPE_BC1>>, <<8, TYPE_BC1>>, <<8, TYPE_BC3>>, <<8, 0>>}

\* the program has created its container, and may have set a picture
InitTexture ==
  /\ \E c \in Created :
       \/ /\ pvr = CreateNew(c[1], 4, c[2])
          /\ pre = CreateNew(c[1], 4, c[2])
          /\ last = [op |-> "CreateNew",
                     arg |-> [width |-> c[1], height |-> 4, pixelType |-> c[2]],
                     returned |-> <<>>]
       \/ /\ pvr = SetImage(CreateNew(c[1], 4, c[2]), Picture(8, 4))
          /\ pre = CreateNew(c[1], 4, c[2])
          /\ last = [op |-> "SetImage", arg |-> [img |-> Picture(8, 4)], returned |-> <<>>]
  /\ buf = <<>>
  /\ dirty = FALSE
  /\ err = NoError
  /\ crashed = FALSE
  /\ steps = 0

NextTexture ==
  \/ \E img \in Pictures : CallSetImage(img)
  \/ CallGetImage
  \/ \E d \in Dimensions, preserve \in BOOLEAN : CallSetDimension(d[1], d[2], preserve)
  \/ CallGetPixelType
  \/ \E v \in {TYPE_BC2, 8} : CallSetPixelType(v)
  \/ CallGetChannelType
  \/ \E v \in {CHAN_UBN - 1, CHAN_SB, CHAN_SB + 1} : CallSetChannelType(v)
  \/ CallGetColorSpace
  \/ \E v \in {SPACE_SRGB, 2} : CallSetColorSpace(v)
  \/ CallGetQuality
  \/ \E v \in {QUALITY_LOW - 1, QUALITY_HIGH, QUALITY_HIGH + 1} : CallSetQuality(v)
  \/ CallGetWeightByAlpha
  \/ CallSetWeightByAlpha(TRUE)
  \/ CallIsPerceptiveMetric
  \/ CallSetPerceptiveMetric(TRUE)
  \/ CallWidth
  \/ CallHeight
  \/ CallErrorOfPvr
  \/ CallClearErrorOfPvr
  \/ \E compress \in BOOLEAN : CallPvrSave(compress)
  \/ CallLoadSaved
  \/ CallLoadBytes(Container([GoodHeader EXCEPT !.metaLen = 2], <<77, 78>>, 16))

SpecTexture == InitTexture /\ [][NextTexture]_vars

----------------------------------------------------------------------------
(* Properties *)

\* the call recorded in last was made with no error pending
Ran(op) == last.op = op /\ pre.err = NoError

\* C1: InsertBytes(o,n) with 0 <= o <= length and n > 0, directly followed by
\* DeleteBytes(o,n), leaves the content (and so the length) the buffer had
\* before the insertion, sets no error and does not panic.
C1_InsertThenDeleteRestores ==
  [][(/\ Ran("InsertBytes")
      /\ last.arg.offset >= 0 /\ last.arg.offset <= Len(pre.buf)
      /\ last.arg.size > 0
      /\ last'.op = "DeleteBytes"
      /\ last'.arg = last.arg)
     => (buf' = pre.buf /\ Len(buf') = Len(pre.buf) /\ err' = NoError /\ ~crashed')]_vars

\* C1 witness: a DeleteBytes(o,n) with 0 < o < length has run on exactly what
\* InsertBytes(o,n) makes of the present content, which holds distinct bytes.
C1_Witness ==
  /\ last.op = "DeleteBytes"
  /\ last.arg.size > 0 /\ last.arg.offset > 0 /\ last.arg.offset < Len(buf)
  /\ Cardinality({buf[i] : i \in 1..Len(buf)}) >= 2
  /\ pre = ObjOf(InsertBytes([buf |-> buf, dirty |-> FALSE, err |-> NoError],
                             last.arg.offset, last.arg.size))
  /\ err = NoError /\ ~crashed

\* C2: DeleteBytes(o,n) with 0 <= o, n > 0 and o+n <= L leaves old[0..o)
\* followed by old[o+n..L), of length L-n.
C2_DeleteRemovesRegion ==
  (/\ Ran("DeleteBytes")
   /\ last.arg.offset >= 0 /\ last.arg.size > 0
   /\ last.arg.offset + last.arg.size <= Len(pre.buf))
  => /\ ~crashed
     /\ buf = Slice(pre.buf, 0, last.arg.offset)
               \o Slice(pre.buf, last.arg.offset + last.arg.size, Len(pre.buf))
     /\ Len(buf) = Len(pre.buf) - last.arg.size

\* C3: InsertBytes(o,n) with 0 <= o <= L and n > 0 leaves old[0..o), then n
\* zero bytes, then old[o..L), of length L+n.
C3_InsertZeroBytes ==
  (/\ Ran("InsertBytes")
   /\ last.arg.offset >= 0 /\ last.arg.offset <= Len(pre.buf)
   /\ last.arg.size > 0)
  => /\ buf = Slice(pre.buf, 0, last.arg.offset) \o Zeros(last.arg.size)
               \o Slice(pre.buf, last.arg.offset, Len(pre.buf))
     /\ Len(buf) = Len(pre.buf) + last.arg.size

\* C6: DeleteBytes(o,n) with n > 0 and o < 0 or o+n > length sets the error
\* state to OutOfRange and leaves content and length unchanged.
C6_DeleteOutOfRange ==
  (/\ Ran("DeleteBytes")
   /\ last.arg.size > 0
   /\ (last.arg.offset < 0 \/ last.arg.offset + last.arg.size > Len(pre.buf)))
  => /\ ~crashed
     /\ err = ErrOffsetOutOfRange
     /\ buf = pre.buf


TypedGets == {"GetUint8", "GetInt8", "GetUint16", "GetInt16", "GetUint32", "GetInt32"}

TypedPuts == {"PutUint8", "PutInt8", "PutUint16", "PutInt16", "PutUint32", "PutInt32"}

\* the width in bytes of the value a typed call reads or writes
WidthOf(call) ==
  IF call.op \in {"GetUint", "GetInt"}
  THEN (IF call.arg.bitsize <= 8 THEN 1 ELSE IF call.arg.bitsize <= 16 THEN 2 ELSE 4)
  ELSE IF call.op \in {"GetUint8", "GetInt8", "PutUint8", "PutInt8"} THEN 1
  ELSE IF call.op \in {"GetUint16", "GetInt16", "PutUint16", "PutInt16"} THEN 2
  ELSE 4

\* whether a typed call returns an unsigned 32-bit value (a Word)
ReturnsWord(call) == call.op \in {"GetUint32", "PutUint32", "GetUint"}

\* the zero or empty value of what a call returns
ZeroRet(call) ==
  IF ReturnsWord(call) THEN Zero32
  ELSE IF call.op = "Error" THEN NoError
  ELSE IF call.op = "IsModified" THEN FALSE
  ELSE IF call.op \in TypedGets \cup TypedPuts
                      \cup {"GetInt", "BufferLength", "DecompressReplace", "CompressReplace"}
  THEN 0
  ELSE <<>>

\* a method was called on a Buffer whose error state was set
CalledInError == steps > 0 /\ pre.err # NoError

\* C4 as stated: once the error state is set, every operation other than
\* ClearError leaves content, length, dirty flag and error state as they were
\* and returns a zero or empty value.
C4_ErrorMakesEveryOpNoOp ==
  (CalledInError /\ last.op # "ClearError")
  => /\ ~crashed
     /\ buf = pre.buf /\ Len(buf) = Len(pre.buf) /\ dirty = pre.dirty /\ err = pre.err
     /\ last.returned = ZeroRet(last)

\* what a call returns on a Buffer whose error state is set
SkippedRet(call) ==
  IF call.op = "Error" THEN pre.err
  ELSE IF call.op = "BufferLength" THEN Len(pre.buf)
  ELSE IF call.op = "IsModified" THEN pre.dirty
  ELSE IF call.op \in {"DecompressInto", "CompressInto"} THEN call.arg.buffer
  ELSE ZeroRet(call)

\* C4 (amended): once the error state is set, every operation other than
\* ClearError and ReplaceBuffer leaves content, length and error state as they
\* were, and the dirty flag too unless it is ClearModified, which clears it;
\* it returns a zero or empty value, except that Error, BufferLength and
\* IsModified report the state and DecompressInto and CompressInto return the
\* target buffer they were given.
C4_ErrorMakesOpsNoOp ==
  (CalledInError /\ last.op \notin {"ClearError", "ReplaceBuffer"})
  => /\ ~crashed
     /\ buf = pre.buf /\ Len(buf) = Len(pre.buf) /\ err = pre.err
     /\ dirty = (IF last.op = "ClearModified" THEN FALSE ELSE pre.dirty)
     /\ last.returned = SkippedRet(last)

\* an in-bounds PutUint8 of a new value was skipped because of the error state
C4_Witness ==
  /\ CalledInError
  /\ last.op = "PutUint8"
  /\ last.arg.offset >= 0 /\ last.arg.offset < Len(pre.buf)
  /\ pre.buf[last.arg.offset + 1] # last.arg.value
  /\ buf = pre.buf /\ err = pre.err /\ last.returned = 0

\* C5: a typed get or put of width w at offset o, with no error pending, sets
\* OutOfRange, returns 0 and leaves content, length and dirty flag as they
\* were when o < 0 or o+w > length; otherwise it sets no error.
C5_TypedAccessBounds ==
  (last.op \in TypedGets \cup TypedPuts \cup {"GetUint", "GetInt"} /\ pre.err = NoError)
  => /\ ~crashed
     /\ IF last.arg.offset < 0 \/ last.arg.offset + WidthOf(last) > Len(pre.buf)
        THEN /\ err = ErrOffsetOutOfRange
             /\ last.returned = (IF ReturnsWord(last) THEN Zero32 ELSE 0)
             /\ buf = pre.buf /\ Len(buf) = Len(pre.buf) /\ dirty = pre.dirty
        ELSE err = NoError

\* C5 witness: a 32-bit write that ends one byte past the end of a non-empty,
\* clean buffer was refused, and the buffer is as before.
C5_Witness ==
  /\ last.op = "PutUint32" /\ pre.err = NoError
  /\ last.arg.offset >= 0 /\ last.arg.offset + 4 = Len(pre.buf) + 1
  /\ err = ErrOffsetOutOfRange /\ buf = pre.buf /\ ~dirty

\* byte k (0 the least significant) of the two's complement form of v
ByteOf(v, k) == (v \div (256 ^ k)) % 256

\* the little-endian encoding of the value of a typed put
Encoding(call) ==
  IF call.op = "PutUint32"
  THEN <<ByteOf(call.arg.value.lo, 0), ByteOf(call.arg.value.lo, 1),
         ByteOf(call.arg.value.hi, 0), ByteOf(call.arg.value.hi, 1)>>
  ELSE [k \in 1..WidthOf(call) |-> ByteOf(call.arg.value, k - 1)]

\* the read of the width and signedness of a typed put
GetOf(put) ==
  CASE put = "PutUint8" -> "GetUint8" [] put = "PutInt8" -> "GetInt8"
    [] put = "PutUint16" -> "GetUint16" [] put = "PutInt16" -> "GetInt16"
    [] put = "PutUint32" -> "GetUint32" [] put = "PutInt32" -> "GetInt32"

\* an in-bounds typed put has just run with no error pending
PutDone ==
  /\ last.op \in TypedPuts /\ pre.err = NoError
  /\ last.arg.offset >= 0 /\ last.arg.offset + WidthOf(last) <= Len(pre.buf)

\* C7: after an in-bounds Put of v the bytes at [offset, offset+width) are
\* v's little-endian encoding and all other bytes are as before; a Get of
\* the same width and signedness at the same offset then returns exactly v.
C7_PutGetRoundTrip ==
  [][PutDone =>
       /\ Slice(buf, last.arg.offset, last.arg.offset + WidthOf(last)) = Encoding(last)
       /\ Len(buf) = Len(pre.buf)
       /\ \A i \in 1..Len(buf) :
            (i <= last.arg.offset \/ i > last.arg.offset + WidthOf(last)) => buf[i] = pre.buf[i]
       /\ (last'.op = GetOf(last.op) /\ last'.arg.offset = last.arg.offset)
            => (last'.returned = last.arg.value /\ err' = NoError)]_vars

\* C7 witness: a GetInt16 returned a negative value from a buffer that a
\* PutInt16 at the same offset had changed, with bytes on both sides of it.
C7_Witness ==
  /\ last.op = "GetInt16" /\ pre.err = NoError /\ err = NoError
  /\ last.returned < 0
  /\ last.arg.offset > 0 /\ last.arg.offset + 2 < Len(buf)
  /\ pre.dirty /\ dirty

\* the size argument as the replace methods use it (negative means 0)
SizeOf(call) == Max(call.arg.size, 0)

\* what the codec makes of the region [offset, offset+size) of old: the
\* inflated bytes, or the stream the writer has emitted once flushed
CodecOutput(call, old) ==
  LET region == Slice(old, call.arg.offset, call.arg.offset + SizeOf(call))
  IN  IF call.op = "DecompressReplace"
      THEN Inflate(region, 2, <<>>).out
      ELSE <<ZHDR>> \o Deflate(region, 1, call.arg.level) \o <<ZSYNC>>

\* a CompressReplace or DecompressReplace has run and succeeded
ReplaceDone ==
  /\ last.op \in {"CompressReplace", "DecompressReplace"} /\ pre.err = NoError
  /\ last.arg.size > 0
  /\ err = NoError /\ ~crashed

\* C8: after a successful CompressReplace or DecompressReplace of a non-empty
\* region whose codec output has m bytes, on a buffer of L bytes: the length is L - size + m,
\* [0, offset) is unchanged, [offset, offset+m) is the codec output and the
\* bytes formerly at [offset+size, L) follow it unchanged and in order.
C8_ReplaceFrame ==
  ReplaceDone =>
    LET out == CodecOutput(last, pre.buf)
        o == last.arg.offset
    IN  /\ last.returned = Len(out)
        /\ Len(buf) = Len(pre.buf) - SizeOf(last) + Len(out)
        /\ buf = Slice(pre.buf, 0, o) \o out \o Slice(pre.buf, o + SizeOf(last), Len(pre.buf))

\* C9: c := CompressReplace(o,s,level) on an in-bounds, non-empty region, directly
\* followed by DecompressReplace(o,c), sets no error and restores the
\* content (the region's bytes and the length) from before the compression.
C9_CompressDecompressRoundTrip ==
  [][(/\ Ran("CompressReplace") /\ err = NoError
      /\ last.arg.offset >= 0 /\ last.arg.size > 0
      /\ last.arg.offset + last.arg.size <= Len(pre.buf)
      /\ last'.op = "DecompressReplace"
      /\ last'.arg = [offset |-> last.arg.offset, size |-> last.returned])
     => (err' = NoError /\ ~crashed' /\ buf' = pre.buf)]_vars

\* the bytes PutString / PutStringEx is to store for value: value itself
\* without a character map, else one Windows-1252 byte per character
FieldBytes(call) ==
  IF call.arg.cmap = NilCharmap THEN call.arg.value
  ELSE [i \in 1..Len(DecodeRunes(call.arg.value)) |->
          CharmapEncode(DecodeRunes(call.arg.value)[i])]

\* a PutString / PutStringEx on an in-bounds field, with a value that the
\* character map can encode and that fits the field, has run
PutFieldDone ==
  /\ last.op \in {"PutString", "PutStringEx"} /\ pre.err = NoError
  /\ last.arg.size > 0 /\ last.arg.offset >= 0
  /\ last.arg.offset + last.arg.size <= Len(pre.buf)
  /\ (last.arg.cmap # NilCharmap
        => \A i \in 1..Len(DecodeRunes(last.arg.value)) :
             CharmapHas(DecodeRunes(last.arg.value)[i]))
  /\ Len(FieldBytes(last)) <= last.arg.size

\* C10: after PutString / PutStringEx(offset,size,value) on an in-bounds
\* field, with an encoded value of at most size bytes, the field holds the
\* value's bytes followed by zero bytes up to size, whatever it held before.
C10_PutStringPadsField ==
  PutFieldDone =>
    /\ ~crashed
    /\ Slice(buf, last.arg.offset, last.arg.offset + last.arg.size)
         = FieldBytes(last) \o Zeros(last.arg.size - Len(FieldBytes(last)))

\* a GetString / GetStringEx on an in-bounds field has run
GetFieldDone ==
  /\ last.op \in {"GetString", "GetStringEx"} /\ pre.err = NoError
  /\ last.arg.size > 0 /\ last.arg.offset >= 0
  /\ last.arg.offset + last.arg.size <= Len(pre.buf)

\* the field a GetString / GetStringEx reads
FieldRead == Slice(pre.buf, last.arg.offset, last.arg.offset + last.arg.size)

\* the number of bytes of field before its first zero byte, Len(field) when
\* it has none
Terminator(field) ==
  CHOOSE k \in 0..Len(field) :
    /\ \A i \in 1..k : field[i] # 0
    /\ (k = Len(field) \/ field[k + 1] = 0)

\* the bytes a read of the field is to return
BytesRead ==
  IF last.arg.null THEN SubSeq(FieldRead, 1, Terminator(FieldRead)) ELSE FieldRead

\* C11: GetString / GetStringEx on an in-bounds field returns, with null set,
\* the bytes up to and not including the first zero byte of the field, or all
\* size bytes when it has none, and without null all size bytes: as they are
\* without a character map, and with one as the text whose characters are
\* those bytes' characters.
C11_GetStringStopsAtTerminator ==
  GetFieldDone =>
    /\ ~crashed /\ err = NoError /\ buf = pre.buf
    /\ IF last.arg.cmap = NilCharmap
       THEN last.returned = BytesRead
       ELSE DecodeRunes(last.returned) = [i \in 1..Len(BytesRead) |-> CharmapDecode(BytesRead[i])]

\* a read with null set stopped at a zero byte inside the field, before a
\* byte that is not zero, and returned a text longer than its bytes
C11_Witness ==
  /\ GetFieldDone /\ last.arg.null /\ last.arg.cmap # NilCharmap
  /\ Terminator(FieldRead) > 0 /\ Terminator(FieldRead) + 1 < Len(FieldRead)
  /\ FieldRead[Terminator(FieldRead) + 2] # 0
  /\ Len(last.returned) > Terminator(FieldRead)

\* the methods that write bytes into the buffer
Writes == TypedPuts \cup {"PutString", "PutStringEx", "PutBuffer"}

\* C12: a write (typed Put, PutString / PutStringEx, PutBuffer) that leaves
\* the content as it was, because the bytes it writes are those already
\* present, leaves the dirty flag as it was: the flag goes from false to true
\* only if the content after the call differs from the content before it.
C12_DirtyOnlyOnChange ==
  (last.op \in Writes /\ pre.err = NoError /\ buf = pre.buf) => dirty = pre.dirty

\* the methods that only read the buffer
Reads == TypedGets \cup {"GetUint", "GetInt", "GetString", "GetStringEx", "GetBuffer", "Bytes",
                         "GetOffsetArray", "GetOffsetArray2", "BufferLength", "IsModified",
                         "Error"}

\* the dirty flag from Load to a save, where saved tells of a step that it
\* is a save: IsModified() returns the flag; it is false after Load, true
\* after a write that changes a byte, stays true through reads and writes,
\* and is false after a save
DirtyLifecycle(saved) ==
  /\ (last.op = "Load" => ~dirty)
  /\ (last'.op = "IsModified" => last'.returned = dirty)
  /\ ((last'.op \in Writes /\ buf' # buf) => dirty')
  /\ ((dirty /\ last'.op \in Reads \cup Writes) => dirty')
  /\ (saved => ~dirty')

\* C13 as stated: IsModified() is false after Load, true after any put that
\* changes a byte, stays true through further reads and puts, and is false
\* after Save.
C13_DirtyLifecycle == [][DirtyLifecycle(last'.op = "Save")]_vars

\* C13 (amended): IsModified() is false after Load, true after any put that
\* changes a byte, stays true through further reads and puts, and is false
\* after a Save that wrote the content without error; a Save whose write
\* fails, or that is skipped because the error state is set, leaves the flag
\* as it was.
C13_DirtyLifecycleOfSavedContent ==
  [][/\ DirtyLifecycle(last'.op = "Save" /\ err = NoError /\ last'.arg.accepted)
     /\ ((last'.op = "Save" /\ ~(err = NoError /\ last'.arg.accepted)) => dirty' = dirty)]_vars

\* a Save wrote the content of a modified Buffer and cleared the flag
C13_Witness ==
  /\ last.op = "Save" /\ pre.err = NoError /\ last.arg.accepted
  /\ pre.dirty /\ ~dirty /\ last.returned = <<buf>>

\* the signed little-endian value of the w bytes of s at offset
SignedAt(s, offset, w) ==
  LET byte(j) == s[offset + j]
      top == IF byte(w) >= 128 THEN byte(w) - 256 ELSE byte(w)
  IN  IF w = 1 THEN top
      ELSE IF w = 2 THEN byte(1) + 256 * top
      ELSE byte(1) + 256 * byte(2) + 65536 * byte(3) + 16777216 * top

\* the argument list last.arg.values is well-formed
ValidValues ==
  LET v == last.arg.values
  IN  /\ Len(v) = 7
      /\ v[1] > 0 /\ v[2] \in {2, 4}
      /\ v[3] > 0 /\ v[4] \in {1, 2, 4}
      /\ v[5] >= 0 /\ v[6] \in {0, 1, 2, 4}
      /\ v[7] > 0

\* whether the argument list names an index field
HasIndex == last.arg.values[5] > 0 /\ last.arg.values[6] > 0

\* the fields the argument list names lie within the buffer
FieldsInBounds ==
  LET v == last.arg.values
  IN  /\ v[1] + v[2] <= Len(pre.buf)
      /\ v[3] + v[4] <= Len(pre.buf)
      /\ (HasIndex => v[5] + v[6] <= Len(pre.buf))

\* the values of the three fields
BaseRead == SignedAt(pre.buf, last.arg.values[1], last.arg.values[2])
CountRead == SignedAt(pre.buf, last.arg.values[3], last.arg.values[4])
IndexRead ==
  IF HasIndex THEN SignedAt(pre.buf, last.arg.values[5], last.arg.values[6]) ELSE 0

\* a GetOffsetArray with a well-formed argument list has run on a buffer
\* whose fields hold a count and an index with 0 <= index <= count
ArrayRead ==
  /\ last.op = "GetOffsetArray" /\ pre.err = NoError
  /\ ValidValues /\ FieldsInBounds
  /\ 0 <= IndexRead /\ IndexRead <= CountRead

\* base + i * structSize for i from index up to count - 1
OffsetsFrom(base, count, index, structSize) ==
  [k \in 1..(count - index) |-> base + (index + k - 1) * structSize]

\* C14 as stated: GetOffsetArray with valid parameters returns the count -
\* index offsets base + i * structSize, i from index up to count - 1, of the
\* base, count and index read from the buffer.
C14_OffsetArray ==
  ArrayRead =>
    /\ ~crashed /\ err = NoError
    /\ last.returned = OffsetsFrom(BaseRead, CountRead, IndexRead, last.arg.values[7])

\* C14 (amended): GetOffsetArray with valid parameters returns the count -
\* index offsets base + i * structSize, i from index up to count - 1, when
\* the base read from the buffer is positive, and an empty result when the
\* base is zero or negative.
C14_OffsetArrayOfPositiveBase ==
  ArrayRead =>
    /\ ~crashed /\ err = NoError
    /\ last.returned = (IF BaseRead > 0
                        THEN OffsetsFrom(BaseRead, CountRead, IndexRead, last.arg.values[7])
                        ELSE <<>>)

\* count = 5, index = 2 and structSize = 16 gave the three offsets base + 32,
\* base + 48 and base + 64
C14_Witness ==
  /\ ArrayRead /\ HasIndex
  /\ CountRead = 5 /\ IndexRead = 2 /\ last.arg.values[7] = 16 /\ BaseRead > 0
  /\ last.returned = <<BaseRead + 32, BaseRead + 48, BaseRead + 64>>

\* the argument list last.arg.values is malformed
MalformedValues ==
  LET v == last.arg.values
  IN  \/ Len(v) < 7
      \/ v[2] \notin {2, 4}
      \/ v[4] \notin {1, 2, 4}
      \/ v[6] \notin {0, 1, 2, 4}
      \/ v[7] <= 0

\* C15: GetOffsetArray sets the error state to InvalidArguments and returns
\* an empty result for every malformed argument list: fewer than 7 values, an
\* offset-field width not in {2,4}, a count-field width not in {1,2,4}, an
\* index-field width not in {0,1,2,4}, or a structSize that is not positive.
C15_MalformedValuesRejected ==
  (last.op = "GetOffsetArray" /\ pre.err = NoError /\ MalformedValues)
  => (err = ErrIllegalArguments /\ last.returned = <<>> /\ buf = pre.buf)

\* the transcoding step of a string read or write on an in-bounds field
\* failed: the character map given cannot encode the value to write, or
\* cannot decode the bytes to read
TranscodingFailed ==
  /\ last.op \in {"GetString", "GetStringEx", "PutString", "PutStringEx"}
  /\ pre.err = NoError
  /\ last.arg.size > 0 /\ last.arg.offset >= 0
  /\ last.arg.offset + last.arg.size <= Len(pre.buf)
  /\ last.arg.cmap # NilCharmap
  /\ IF last.op \in {"PutString", "PutStringEx"}
     THEN \E i \in 1..Len(DecodeRunes(last.arg.value)) :
            ~CharmapHas(DecodeRunes(last.arg.value)[i])
     ELSE AnsiToUtf8(BytesRead, last.arg.cmap).err # NoError

\* C16 as stated: when the transcoding step of a string read or write fails,
\* the operation completes with the raw bytes: the error state stays unset,
\* the read returns the raw bytes and the write stores them.
C16_TranscodingFallsBackToRaw ==
  TranscodingFailed =>
    /\ err = NoError
    /\ IF last.op \in {"PutString", "PutStringEx"}
       THEN Slice(buf, last.arg.offset,
                  last.arg.offset + Min(last.arg.size, Len(last.arg.value)))
              = SubSeq(last.arg.value, 1, Min(last.arg.size, Len(last.arg.value)))
       ELSE last.returned = BytesRead

\* C16 (amended): when the transcoding step of a string read or write fails,
\* the operation sets the error state to the transcoder's error and stops:
\* the read returns the empty string and the write stores nothing, so
\* content and dirty flag stay as they were.
C16_TranscodingFailureSetsError ==
  TranscodingFailed =>
    /\ ~crashed
    /\ err = (IF last.op \in {"PutString", "PutStringEx"}
              THEN ErrRepertoire ELSE AnsiToUtf8(BytesRead, last.arg.cmap).err)
    /\ last.returned = <<>>
    /\ buf = pre.buf /\ dirty = pre.dirty

\* a PutStringEx of a character Windows-1252 lacks, into a field that held
\* other bytes, set the error state
C16_Witness ==
  /\ TranscodingFailed /\ last.op = "PutStringEx"
  /\ Slice(pre.buf, last.arg.offset,
           last.arg.offset + Min(last.arg.size, Len(last.arg.value)))
       # SubSeq(last.arg.value, 1, Min(last.arg.size, Len(last.arg.value)))
  /\ err = ErrRepertoire

\* Load() read its input without error and handed it to importPvr
Imports == last.op = "Load" /\ last.arg.e = NoError

\* header, metadata, image and encoding settings are those of the Pvr the
\* step started from
ContainerUntouched == [pvr EXCEPT !.err = pre.err] = pre

\* the input begins with a 32-bit value that is not the signature
LeadingSize == SignedAt(last.arg.data, 0, 4)

\* the input is a size that importPvr must refuse, followed by anything
SizeRefused ==
  /\ Imports /\ Len(last.arg.data) >= 4
  /\ LeadingSize # versionSig
  /\ (LeadingSize < 0 \/ LeadingSize < HeaderSize \/ LeadingSize > MaxTargetSize)

\* C17: an import of input whose leading 32-bit value is not the signature
\* and, read as the declared decompressed size, is negative, below 0x34 or
\* above 2^25 fails with an error before any decompression (the Buffer
\* importPvr works on still holds the input, unmodified and without error)
\* and leaves header fields, metadata and image as they were.
C17_WrapperSizeRefused ==
  SizeRefused =>
    /\ ~crashed
    /\ pvr.err = ErrTargetSize
    /\ buf = last.arg.data /\ ~dirty /\ err = NoError
    /\ ContainerUntouched

\* a negative size in front of a stream that decompresses without error was
\* refused
C17_Witness ==
  /\ SizeRefused /\ LeadingSize < 0
  /\ Inflate(last.arg.data, 6, <<>>).err = EOF /\ last.arg.data[5] = ZHDR
  /\ pvr.err = ErrTargetSize

\* C18: a failed import leaves every header field, the metadata and the
\* image exactly as before; only the error field changes.
C18_FailedImportChangesOnlyError ==
  (last.op = "Load" /\ pvr.err # NoError) => (~crashed /\ ContainerUntouched)

\* the errors of the steps of an import
ImportErrors ==
  {ErrRead, ErrTooSmall, ErrTargetSize, ErrHeader, ErrUnexpectedEOF, ErrCorruptInput,
   ErrOffsetOutOfRange, ErrSizeMismatch, ErrSignature, ErrPvrTooSmall,
   ErrExtendedFormat, ErrPixelFormat, ErrColorSpace, ErrChannelType, ErrHeight,
   ErrHeightMultiple, ErrWidth, ErrWidthMultiple, ErrDepth, ErrSurfaces, ErrFaces,
   ErrMipMaps, ErrMetadata, ErrDecoding}

\* the PVR data importPvr parsed: what its Buffer holds in the end
Parsed(offset) == SignedAt(buf, offset, 4)

\* an import failed at its last step, decoding the texture, with a header
\* that differs from the one the Pvr keeps
C18_Witness ==
  /\ last.op = "Load" /\ pvr.err = ErrDecoding
  /\ Parsed(28) # pvr.info.width /\ Parsed(4) # pvr.info.flags
  /\ ContainerUntouched

\* importPvr got to the header checks: the data, unwrapped if it was PVRZ,
\* begins with the signature and is at least as long as a header
HeaderParsed ==
  /\ Imports /\ err = NoError /\ Len(buf) >= HeaderSize
  /\ Parsed(0) = versionSig
  /\ pvr.err # ErrSizeMismatch

\* the header fields checked before depth are valid
ValidUpToWidth ==
  /\ Parsed(12) = 0
  /\ Parsed(8) \in {TYPE_BC1, TYPE_BC2, TYPE_BC3}
  /\ Parsed(16) \in {0, 1}
  /\ Parsed(20) \in 0..3
  /\ Parsed(24) \in 0..MaxDimension /\ Parsed(24) % 4 = 0
  /\ Parsed(28) \in 0..MaxDimension /\ Parsed(28) % 4 = 0

\* depth, numSurfaces, numFaces and numMipMaps are 1
SingleTexture == \A offset \in {32, 36, 40, 44} : Parsed(offset) = 1

\* C19: an import of an otherwise valid container whose depth, numSurfaces,
\* numFaces or numMipMaps is not 1 fails with an error (that of the first
\* such field), and the container stays in its pre-call state.
C19_SingleTextureOnly ==
  (HeaderParsed /\ ValidUpToWidth /\ ~SingleTexture) =>
    /\ ~crashed
    /\ pvr.err = (IF Parsed(32) # 1 THEN ErrDepth
                  ELSE IF Parsed(36) # 1 THEN ErrSurfaces
                  ELSE IF Parsed(40) # 1 THEN ErrFaces ELSE ErrMipMaps)
    /\ ContainerUntouched

\* a PVRZ whose header is valid except for its two mip maps was refused
C19_Witness ==
  /\ HeaderParsed /\ ValidUpToWidth /\ dirty
  /\ Parsed(32) = 1 /\ Parsed(36) = 1 /\ Parsed(40) = 1 /\ Parsed(44) = 2
  /\ Parsed(48) = 0 /\ Len(buf) = HeaderSize + 16
  /\ pvr.err = ErrMipMaps

\* the metadata-length field of a header that is valid up to it
MetaLengthRead == HeaderParsed /\ ValidUpToWidth /\ SingleTexture

\* C20 as stated: an import with a metadata length that is negative or
\* exceeds the bytes after the header fails with an error, prior state
\* untouched.
C20_MetaLengthChecked ==
  (MetaLengthRead /\ (Parsed(48) < 0 \/ Parsed(48) > Len(buf) - HeaderSize)) =>
    (~crashed /\ pvr.err # NoError /\ ContainerUntouched)

\* the texture of the parsed header takes this many bytes
TextureSize == GetStorageRequirements(Parsed(28), Parsed(24), Parsed(8))

\* C20 (amended): an import with a metadata length that exceeds the bytes
\* after the header fails with an error, prior state untouched; a negative
\* metadata length is read as zero: the import goes on without metadata and
\* takes the texture from offset 0x34, so it succeeds when the texture is
\* there and not empty.
C20_MetaLengthWithinInput ==
  /\ (MetaLengthRead /\ Parsed(48) > Len(buf) - HeaderSize) =>
       (~crashed /\ pvr.err = ErrMetadata /\ ContainerUntouched)
  /\ (MetaLengthRead /\ Parsed(48) < 0) =>
       /\ ~crashed
       /\ pvr.err = (IF Len(buf) - HeaderSize < TextureSize THEN ErrPvrTooSmall
                     ELSE IF Parsed(28) = 0 \/ Parsed(24) = 0 THEN ErrDecoding
                     ELSE NoError)
       /\ pvr.err = NoError =>
            /\ pvr.info.meta = <<>>
            /\ pvr.img = DecompressImage(Parsed(28), Parsed(24),
                                         Slice(buf, HeaderSize, HeaderSize + TextureSize),
                                         Parsed(8))
            /\ pvr.info.width = Parsed(28) /\ pvr.info.height = Parsed(24)

\* a metadata length beyond the end of the input was refused
C20_Witness ==
  /\ MetaLengthRead /\ Parsed(48) > Len(buf) - HeaderSize
  /\ Len(buf) - HeaderSize >= TextureSize /\ Parsed(28) > 0 /\ Parsed(24) > 0
  /\ pvr.err = ErrMetadata

\* the input is PVRZ with a declared size within the limits and a stream
\* that decompresses without error
Decompressed ==
  /\ Imports /\ Len(last.arg.data) > 4
  /\ LeadingSize # versionSig
  /\ LeadingSize >= HeaderSize /\ LeadingSize <= MaxTargetSize
  /\ last.arg.data[5] = ZHDR
  /\ Inflate(last.arg.data, 6, <<>>).err = EOF

\* what the stream of the input holds
StreamContent == Inflate(last.arg.data, 6, <<>>).out

\* C21: for PVRZ input with 0x34 <= S <= 2^25 whose remainder decompresses,
\* import fails if the decompressed length is smaller than S, cuts the
\* buffer to exactly S bytes if it is larger, and then goes on to parse the
\* header only if the 32-bit value at offset 0 is the signature, failing
\* otherwise.
C21_DeclaredSizeAndSignature ==
  Decompressed =>
    /\ ~crashed /\ err = NoError
    /\ IF Len(StreamContent) < LeadingSize
       THEN pvr.err = ErrSizeMismatch /\ ContainerUntouched
       ELSE /\ buf = SubSeq(StreamContent, 1, LeadingSize)
            /\ IF SignedAt(StreamContent, 0, 4) # versionSig
               THEN pvr.err = ErrSignature /\ ContainerUntouched
               ELSE pvr.err \notin {ErrTooSmall, ErrTargetSize, ErrSizeMismatch, ErrSignature}

\* a stream that holds more than the declared size was cut to it and
\* imported
C21_Witness ==
  /\ Decompressed /\ Len(StreamContent) > LeadingSize
  /\ Len(buf) = LeadingSize
  /\ pvr.err = NoError /\ pvr.info.width = Parsed(28)

\* the region [offset, offset+size) of a CompressReplace or DecompressReplace
\* reaches beyond the buffer
RegionOutOfBounds ==
  last.arg.offset < 0 \/ last.arg.offset + SizeOf(last) > Len(pre.buf)

\* the failure of the stream codec on the region of a DecompressReplace,
\* NoError if it has none (the writer of CompressReplace never fails)
CodecFailure ==
  LET region == Slice(pre.buf, last.arg.offset, last.arg.offset + SizeOf(last))
  IN  IF last.op # "DecompressReplace" \/ RegionOutOfBounds \/ region = <<>> THEN NoError
      ELSE IF region[1] # ZHDR THEN ErrHeader
      ELSE IF Inflate(region, 2, <<>>).err # EOF THEN Inflate(region, 2, <<>>).err
      ELSE NoError

\* a CompressReplace or DecompressReplace was called without error state on
\* a region out of bounds or on one the codec fails on
ReplaceRefused ==
  /\ last.op \in {"CompressReplace", "DecompressReplace"} /\ pre.err = NoError
  /\ (RegionOutOfBounds \/ CodecFailure # NoError)

\* C30: when the region is out of bounds or the stream codec fails during
\* CompressReplace or DecompressReplace, the call returns 0, the error state
\* holds the failure, and content, length and dirty flag are as before.
C30_FailedReplaceChangesNothing ==
  ReplaceRefused =>
    /\ ~crashed
    /\ last.returned = 0
    /\ err = IF RegionOutOfBounds THEN ErrOffsetOutOfRange ELSE CodecFailure
    /\ buf = pre.buf
    /\ dirty = pre.dirty

\* a stream that inflates some bytes and then ends early was refused
C30_Witness ==
  /\ ReplaceRefused
  /\ CodecFailure = ErrUnexpectedEOF
  /\ Inflate(Slice(pre.buf, last.arg.offset, last.arg.offset + SizeOf(last)), 2, <<>>).out # <<>>
  /\ ~pre.dirty
  /\ buf = pre.buf /\ err = ErrUnexpectedEOF

\* an uncompressed Save of an error-free container has written its output
Stored == last.op = "Save" /\ ~last.arg.compress /\ last.returned = <<TRUE>>

\* the header fields of a container
HeaderOf(p) ==
  [sig |-> versionSig, flags |-> p.info.flags, pixelType |-> p.info.pixelType, pf |-> 0,
   colorSpace |-> p.info.colorSpace, channelType |-> p.info.channelType,
   height |-> p.info.height, width |-> p.info.width, depth |-> p.info.depth,
   numSurfaces |-> p.info.numSurfaces, numFaces |-> p.info.numFaces,
   numMipMaps |-> p.info.numMipMaps, metaLen |-> Len(p.info.meta)]

\* C22: the uncompressed export is the 0x34-byte little-endian header, then
\* the metaLength metadata bytes at 0x34, then the block-encoded payload at
\* 0x34 + metaLength, and nothing else; so the bytes an import reads at
\* 0x34 + metaLength are the payload the export encoded.
C22_ExportLayout ==
  Stored =>
    LET payload == CompressImage(pre.img, pre.info.pixelType)
        ofsData == HeaderSize + Len(pre.info.meta)
    IN  /\ buf = HeaderBytes(HeaderOf(pre)) \o pre.info.meta \o payload
        /\ Len(buf) = ofsData + Len(payload)
        /\ Slice(buf, ofsData, ofsData + Len(payload)) = payload

\* Save was called on an error-free container of a supported pixel type
\* whose width or height is at least 1 but not a multiple of 4
SavedUnaligned ==
  /\ last.op = "Save" /\ pre.err = NoError
  /\ pixelTypeSupported(pre.info.pixelType)
  /\ pre.info.width >= 1 /\ pre.info.height >= 1
  /\ (pre.info.width % 4 # 0 \/ pre.info.height % 4 # 0)

\* C23: the export rounds width and height up to the next multiple of 4 and
\* resizes the canvas, content preserved, before encoding; so Save on an
\* error-free container whose width or height is >= 1 but not a multiple of
\* 4 produces output (header and payload of the padded size) and sets no
\* error.
C23_SavePadsToBlocks ==
  SavedUnaligned =>
    /\ ~crashed
    /\ pvr.err = NoError
    /\ last.returned = <<TRUE>>
    /\ Len(buf) >= HeaderSize + GetStorageRequirements(pre.info.width, pre.info.height,
                                                       pre.info.pixelType)

\* the setters of an enumerated parameter, and their enumerations
EnumSetters == {"SetPixelType", "SetChannelType", "SetColorSpace", "SetQuality"}

EnumerationOf(op) ==
  IF op = "SetPixelType" THEN {TYPE_BC1, TYPE_BC2, TYPE_BC3}
  ELSE IF op = "SetChannelType" THEN CHAN_UBN..CHAN_SB
  ELSE IF op = "SetColorSpace" THEN {SPACE_LRGB, SPACE_SRGB}
  ELSE QUALITY_LOW..QUALITY_HIGH

\* the container p with the parameter of setter op holding v
Storing(p, op, v) ==
  IF op = "SetPixelType" THEN [p EXCEPT !.info.pixelType = v]
  ELSE IF op = "SetChannelType" THEN [p EXCEPT !.info.channelType = v]
  ELSE IF op = "SetColorSpace" THEN [p EXCEPT !.info.colorSpace = v]
  ELSE [p EXCEPT !.quality = v]

\* one of these setters was called on an error-free container
SetterCalled == last.op \in EnumSetters /\ pre.err = NoError

\* C24: SetPixelType, SetChannelType, SetColorSpace and SetQuality, called
\* with a value outside the enumeration, set InvalidArguments and leave the
\* stored parameter unchanged; called with a member they store it and set
\* no error.
C24_SettersValidate ==
  SetterCalled =>
    pvr = IF last.arg.value \in EnumerationOf(last.op)
          THEN Storing(pre, last.op, last.arg.value)
          ELSE [pre EXCEPT !.err = ErrIllegalArguments]

\* C24 as the code has it: SetPixelType, SetChannelType and SetColorSpace do
\* as above; SetQuality never sets an error: it stores a member as given,
\* the lowest quality for a value below it and the highest for one above.
C24_SettersValidateQualityClamped ==
  SetterCalled =>
    pvr = IF last.arg.value \in EnumerationOf(last.op)
          THEN Storing(pre, last.op, last.arg.value)
          ELSE IF last.op # "SetQuality" THEN [pre EXCEPT !.err = ErrIllegalArguments]
          ELSE IF last.arg.value < QUALITY_LOW THEN Storing(pre, last.op, QUALITY_LOW)
          ELSE Storing(pre, last.op, QUALITY_HIGH)

\* SetQuality was called with a value above the highest quality and stored
\* the highest
C24_Witness ==
  /\ SetterCalled /\ last.op = "SetQuality" /\ last.arg.value > QUALITY_HIGH
  /\ pre.quality # QUALITY_HIGH
  /\ pvr.quality = QUALITY_HIGH /\ pvr.err = NoError

\* a method other than Error and ClearError was called on a container whose
\* error state was set
CalledInPvrError ==
  /\ pre.err # NoError
  /\ last.op \notin {"CreateNew", "Load", "Error", "ClearError"}

\* C25: once the error state is set, every further operation of the
\* container other than ClearError short-circuits: mutators and Save change
\* nothing and write nothing, and every getter (GetPixelType, GetWidth,
\* GetHeight, GetImage and the others) returns its zero or empty value.
C25_PvrErrorShortCircuits ==
  CalledInPvrError =>
    /\ ~crashed
    /\ pvr = pre
    /\ last.op = "Save" => last.returned = <<FALSE>> /\ buf = <<>>
    /\ last.op = "GetImage" => last.returned = <<NilImage>>
    /\ last.op \in {"GetWeightByAlpha", "IsPerceptiveMetric"} => last.returned = <<FALSE>>
    /\ last.op \in {"GetPixelType", "GetChannelType", "GetColorSpace", "GetQuality",
                    "GetWidth", "GetHeight"} => last.returned = <<0>>

\* width and height of p are multiples of 4 in [4, 4096] and its pixel type
\* is supported
Aligned(p) ==
  /\ p.info.width % 4 = 0 /\ p.info.width >= 4 /\ p.info.width <= MaxDimension
  /\ p.info.height % 4 = 0 /\ p.info.height >= 4 /\ p.info.height <= MaxDimension
  /\ pixelTypeSupported(p.info.pixelType)

DimensionSet == last.op = "SetDimension" /\ pre.err = NoError

\* C27: SetDimension(w, h, preserve) with w < 1 or h < 1 sets
\* InvalidArguments and leaves width, height and image unchanged; with
\* w, h >= 1 it makes width and height exactly w and h, with the
\* overlapping top-left content carried over when preserve is true and a
\* blank canvas when it is false.
C27_SetDimension ==
  DimensionSet =>
    IF last.arg.width < 1 \/ last.arg.height < 1
    THEN /\ pvr.err = ErrIllegalArguments
         /\ pvr.info.width = pre.info.width /\ pvr.info.height = pre.info.height
         /\ pvr.img = pre.img
    ELSE /\ pvr.err = NoError
         /\ pvr.info.width = last.arg.width /\ pvr.info.height = last.arg.height
         /\ pvr.img.width = last.arg.width /\ pvr.img.height = last.arg.height
         /\ \A x \in 0..(last.arg.width - 1), y \in 0..(last.arg.height - 1) :
              IF ~last.arg.preserve THEN PixelAt(pvr.img, x, y) = 0
              ELSE x < pre.img.width /\ y < pre.img.height
                     => PixelAt(pvr.img, x, y) = PixelAt(pre.img, x, y)

\* the call asks, with preserve, for the size the container has
SameSizeKept ==
  /\ last.arg.preserve
  /\ last.arg.width = pre.info.width /\ last.arg.height = pre.info.height

\* C27 as the code has it: a call with preserve true for the current width
\* and height sets no error and changes nothing, whatever the size; any
\* other call does as C27 says.
C27_SetDimensionUnlessSameSize ==
  DimensionSet =>
    IF SameSizeKept THEN pvr = pre
    ELSE IF last.arg.width < 1 \/ last.arg.height < 1
    THEN /\ pvr.err = ErrIllegalArguments
         /\ pvr.info.width = pre.info.width /\ pvr.info.height = pre.info.height
         /\ pvr.img = pre.img
    ELSE /\ pvr.err = NoError
         /\ pvr.info.width = last.arg.width /\ pvr.info.height = last.arg.height
         /\ pvr.img.width = last.arg.width /\ pvr.img.height = last.arg.height
         /\ \A x \in 0..(last.arg.width - 1), y \in 0..(last.arg.height - 1) :
              IF ~last.arg.preserve THEN PixelAt(pvr.img, x, y) = 0
              ELSE x < pre.img.width /\ y < pre.img.height
                     => PixelAt(pvr.img, x, y) = PixelAt(pre.img, x, y)

\* an 8x4 picture was cut to 4x4 with its content preserved
C27_Witness ==
  /\ DimensionSet /\ last.arg.preserve
  /\ last.arg.width = 4 /\ last.arg.height = 4
  /\ pre.img = Picture(8, 4)
  /\ pvr.img.width = 4 /\ pvr.img.height = 4
  /\ PixelAt(pvr.img, 3, 3) = PixelAt(Picture(8, 4), 3, 3)
  /\ PixelAt(pvr.img, 3, 3) # 0

\* C28: in every state of a container that was created by CreateNew with
\* any arguments or by Load and then changed by setters and imports, the
\* pixel format is BC1 (7), BC2 (9) or BC3 (11), and depth, numSurfaces,
\* numFaces and numMipMaps are all 1.
C28_SupportedSingleTexture ==
  /\ pvr.info.pixelType \in {7, 9, 11}
  /\ pvr.info.depth = 1 /\ pvr.info.numSurfaces = 1
  /\ pvr.info.numFaces = 1 /\ pvr.info.numMipMaps = 1

\* C29: after any sequence of CreateNew, Load (successful or failed),
\* SetImage and SetDimension, the recorded width and height are the bounds
\* of the image the container owns, so the header an export writes
\* describes the image it encodes.
C29_SizeIsImageBounds ==
  /\ ~pvr.img.nil
  /\ pvr.info.width = pvr.img.width
  /\ pvr.info.height = pvr.img.height
  /\ Len(pvr.img.pixels) = pvr.info.width * pvr.info.height

\* SetImage gave a 6x4 container an 8x4 picture, and SetDimension
\* then made it 10x8
C29_Witness ==
  /\ last.op = "SetDimension" /\ last.arg.width = 10 /\ last.arg.height = 8
  /\ pre.img = Picture(8, 4) /\ pre.info.width = 8
  /\ pvr.err = NoError
  /\ pvr.info.width = 10 /\ pvr.info.height = 8
  /\ pvr.img.width = 10 /\ pvr.img.height = 8

====
